---- MODULE Spec2Model ----
(***************************************************************************)
(* Scoring engine of streamlit_app.py (placemakingmx/placegamedraft).      *)
(*                                                                         *)
(* Number representation.  The program computes with Python floats.  Here  *)
(* a score is an integer number of thousandths of a point (Pts(100) is the *)
(* score 100.0), a weight is an integer number of hundredths (70 is 0.7)   *)
(* and a linear combination c1*x1 + .. + cn*xn with coefficients given in  *)
(* hundredths is (c1*x1 + .. + cn*xn) \div 100.  Raw answers are kept as   *)
(* the widgets produce them: ordinal codes and percentages as integers,    *)
(* the 0.0-10.0 number inputs in tenths, check boxes as 0 / 1.             *)
(* Python's None is the value None below; a key that is not in a dict is   *)
(* a key outside the DOMAIN of the function that models the dict.          *)
(***************************************************************************)
EXTENDS Integers, Sequences, FiniteSets, TLC

VARIABLES
    answers,          \* st.session_state["answers"]: dict key -> raw value
    report,           \* what the last run of pagina_resultados computed
    steps,            \* number of answer edits made so far
    config_edits,     \* the changes made to the table PROGRAM_CONFIG, oldest first
    call,             \* the last call of an engine function: name, arguments, result
    save_pending,     \* st.session_state["save_pending"]
    saved_to_sheet,   \* st.session_state["saved_to_sheet"]
    sheet,            \* the rows appended to the worksheet, oldest first
    env,              \* the locals pagina_resultados has assigned in the run under way
    widgets,          \* st.session_state[key] of the widgets: key -> value held
    force_reload,     \* st.session_state["force_reload"]
    appended          \* number of rows the session appended since its last reset (history)

vars ==
    <<answers, report, steps, config_edits, call, save_pending, saved_to_sheet, sheet, env,
      widgets, force_reload, appended>>

\* ---------------------------------------------------------------- bounds
\* Percentages 0..100 are sampled at (100*i) \div PctGrid, i = 0..PctGrid.
PctGrid == 2
\* Person counts (a41_before, a41_after) are sampled at 50*i, i = 0..MaxCountSteps.
MaxCountSteps == 3
\* Largest number of entries of an indicator dict handed to the weighting layer.
MaxInds == 2
\* Largest number of set_ans / _clear_answer edits applied to an answer record.
MaxEdits == 1
\* Largest ordinal code handed to a mapping function (option lists end at 3 or 4).
MaxCode == 12
\* Number of steps of the 0-100 slider grid the share and percentage calculators are called on.
ShareGrid == 10

\* ---------------------------------------------------------------- values
None == -1000000

Pts(n) == n * 1000

Max(a, b) == IF a >= b THEN a ELSE b

Min(a, b) == IF a <= b THEN a ELSE b

nz(x) == IF x = None THEN 0 ELSE x

\* d.get(k, default) and d.get(k)
dict_get(d, k, default) == IF k \in DOMAIN d THEN d[k] ELSE default

get(d, k) == dict_get(d, k, None)

\* d[k] = v
dict_set(d, k, v) == [x \in (DOMAIN d) \cup {k} |-> IF x = k THEN v ELSE d[x]]

\* d.pop(k, None)
dict_pop(d, k) == [x \in (DOMAIN d) \ {k} |-> d[x]]

EmptyDict == [x \in {} |-> 0]

\* Python truthiness of a raw answer (None, False, 0 are falsy)
truthy(v) == v # None /\ v # 0

\* ---------------------------------------------------------------- mapping functions
score_1_3_100_50_10(x) ==
    IF x = 1 THEN Pts(100) ELSE IF x = 2 THEN Pts(50) ELSE IF x = 3 THEN Pts(10) ELSE None

score_1_3_10_50_100(x) ==
    IF x = 1 THEN Pts(10) ELSE IF x = 2 THEN Pts(50) ELSE IF x = 3 THEN Pts(100) ELSE None

score_1_4_100_75_50_25(x) ==
    IF x = 1 THEN Pts(100) ELSE IF x = 2 THEN Pts(75)
    ELSE IF x = 3 THEN Pts(50) ELSE IF x = 4 THEN Pts(25) ELSE None

\* Variant: a code above the option list scores like the last option.
score_1_4_100_60_20_10_clamped(x) ==
    IF x = 1 THEN Pts(100) ELSE IF x = 2 THEN Pts(60)
    ELSE IF x = 3 THEN Pts(20) ELSE IF x = None THEN None
    ELSE IF x >= 4 THEN Pts(10) ELSE None

score_1_4_100_60_20_10(x) ==
    IF x = 1 THEN Pts(100) ELSE IF x = 2 THEN Pts(60)
    ELSE IF x = 3 THEN Pts(20) ELSE IF x = 4 THEN Pts(10) ELSE None

score_estado(a) == score_1_4_100_75_50_25(a)

score_A1_5_1(a15_1) ==
    IF a15_1 = 1 THEN Pts(100) ELSE IF a15_1 = 2 THEN Pts(10)
    ELSE IF a15_1 = 3 THEN Pts(5) ELSE None

score_A1_2_1(a12_1) ==
    IF a12_1 = 1 THEN Pts(10) ELSE IF a12_1 = 2 THEN Pts(50)
    ELSE IF a12_1 = 3 THEN Pts(100) ELSE None

score_A1_2_2(a12_1, a12_2_1, a12_2_2) ==
    IF a12_1 # 1 THEN score_1_3_100_50_10(a12_2_1) ELSE score_1_4_100_75_50_25(a12_2_2)

score_A1_2_3(a12_3) ==
    IF a12_3 = 1 THEN Pts(100) ELSE IF a12_3 = 2 THEN Pts(1)
    ELSE IF a12_3 = 3 THEN Pts(5) ELSE None

score_A4_3_1(x) ==
    IF x = 1 THEN Pts(100) ELSE IF x = 2 THEN Pts(75)
    ELSE IF x = 3 THEN Pts(50) ELSE IF x = 4 THEN Pts(1) ELSE None

score_A4_3_2(x) ==
    IF x = 1 THEN Pts(100) ELSE IF x = 2 THEN Pts(75)
    ELSE IF x = 3 THEN Pts(50) ELSE IF x = 4 THEN Pts(1) ELSE None

score_A4_4_1(x) == score_1_3_100_50_10(x)

score_A4_4_2(x) == score_1_3_100_50_10(x)

\* ---------------------------------------------------------------- indicators A1
\* Variant: the 0.85/0.15 blend is used whatever the order of the two inputs.
calc_A1_1_symmetric(a11_1, a11_2) ==
    IF a11_1 = None THEN None
    ELSE IF a11_2 = None THEN a11_1
    ELSE (85 * a11_1 + 15 * a11_2) \div 100

calc_A1_1(a11_1, a11_2) ==
    IF a11_1 = None THEN None
    ELSE IF a11_2 = None THEN a11_1
    ELSE IF a11_1 >= a11_2 THEN (85 * a11_1 + 15 * a11_2) \div 100
    ELSE (60 * a11_1 + 40 * a11_2) \div 100

calc_A1_2(a12_1, a12_2_1, a12_2_2, a12_3) ==
    LET S21 == score_A1_2_1(a12_1)
        S22 == score_A1_2_2(a12_1, a12_2_1, a12_2_2)
        S23 == score_A1_2_3(a12_3)
    IN  IF None \in {S21, S22, S23} THEN None
        ELSE (75 * S21 + 10 * S22 + 15 * S23) \div 100

\* Variant: the physical state is not discounted when there are no organized groups.
calc_A1_3_undiscounted(a12_1, a13_1, a12_2_1, a12_2_2) ==
    IF a12_1 # 1 THEN score_1_4_100_75_50_25(a13_1)
    ELSE score_1_4_100_75_50_25(a12_2_2)

calc_A1_3(a12_1, a13_1, a12_2_1, a12_2_2) ==
    IF a12_1 # 1 THEN score_1_4_100_75_50_25(a13_1)
    ELSE LET base == score_1_4_100_75_50_25(a12_2_2)
         IN  IF base = None THEN None ELSE (base * 70) \div 100

calc_A1_4(A1_3, a14_1) ==
    LET S41 == score_estado(a14_1)
    IN  IF A1_3 = None \/ S41 = None THEN None
        ELSE (50 * A1_3 + 50 * S41) \div 100

calc_A1_5(a12_3, a15_1, a15_2) ==
    LET S51 == score_A1_5_1(a15_1)
        S52 == score_1_4_100_60_20_10(a15_2)
        S23 == score_A1_2_3(a12_3)
    IN  IF a15_1 = 1 THEN S51
        ELSE IF S52 = None \/ S23 = None THEN None
        ELSE (50 * S52) \div 100 + S23

\* ---------------------------------------------------------------- indicators A2
\* Variant: the primary-mode answer is used only when all four shares are None.
calc_A2_1_fallback_if_all_none(a_walk, a_bike, a_pt, a_car, a21_2) ==
    IF \E v \in {a_walk, a_bike, a_pt, a_car} : v # None
    THEN LET walk == nz(a_walk)
             bike == nz(a_bike)
             pt == nz(a_pt)
             car == nz(a_car)
             active == walk + bike
             total == active + pt + car
         IN  IF active > Pts(50) THEN Pts(100)
             ELSE IF pt > Pts(50) THEN Pts(80)
             ELSE IF car > Pts(50) THEN Pts(50)
             ELSE IF total <= 0 THEN None
             ELSE ((10 * active + 8 * pt + 5 * car) * 100) \div (Max(total, Pts(1)) \div 100)
    ELSE IF a21_2 = 1 THEN Pts(50)
         ELSE IF a21_2 = 2 THEN Pts(60)
         ELSE IF a21_2 = 3 THEN Pts(90)
         ELSE IF a21_2 = 4 THEN Pts(100)
         ELSE None

\* Variant: the transit rule is tried before the walk+bike rule.
calc_A2_1_transit_first(a_walk, a_bike, a_pt, a_car, a21_2) ==
    IF \E v \in {a_walk, a_bike, a_pt, a_car} : v # None /\ v > 0
    THEN LET walk == nz(a_walk)
             bike == nz(a_bike)
             pt == nz(a_pt)
             car == nz(a_car)
             active == walk + bike
             total == active + pt + car
         IN  IF pt > Pts(50) THEN Pts(80)
             ELSE IF active > Pts(50) THEN Pts(100)
             ELSE IF car > Pts(50) THEN Pts(50)
             ELSE IF total <= 0 THEN None
             ELSE ((10 * active + 8 * pt + 5 * car) * 100) \div (Max(total, Pts(1)) \div 100)
    ELSE IF a21_2 = 1 THEN Pts(50)
         ELSE IF a21_2 = 2 THEN Pts(60)
         ELSE IF a21_2 = 3 THEN Pts(90)
         ELSE IF a21_2 = 4 THEN Pts(100)
         ELSE None

\* Variant: four present shares are scored even when none of them is positive.
calc_A2_1_zero_shares_scored(a_walk, a_bike, a_pt, a_car, a21_2) ==
    IF \A v \in {a_walk, a_bike, a_pt, a_car} : v # None
    THEN LET active == a_walk + a_bike
             total == active + a_pt + a_car
         IN  IF active > Pts(50) THEN Pts(100)
             ELSE IF a_pt > Pts(50) THEN Pts(80)
             ELSE IF a_car > Pts(50) THEN Pts(50)
             ELSE ((10 * active + 8 * a_pt + 5 * a_car) * 100) \div (Max(total, Pts(1)) \div 100)
    ELSE IF a21_2 = 1 THEN Pts(50)
         ELSE IF a21_2 = 2 THEN Pts(60)
         ELSE IF a21_2 = 3 THEN Pts(90)
         ELSE IF a21_2 = 4 THEN Pts(100)
         ELSE None

\* The four shares arrive as float(raw percentage), i.e. in thousandths.
calc_A2_1(a_walk, a_bike, a_pt, a_car, a21_2) ==
    IF \E v \in {a_walk, a_bike, a_pt, a_car} : v # None /\ v > 0
    THEN LET walk == nz(a_walk)
             bike == nz(a_bike)
             pt == nz(a_pt)
             car == nz(a_car)
             active == walk + bike
             total == active + pt + car
         IN  IF active > Pts(50) THEN Pts(100)
             ELSE IF pt > Pts(50) THEN Pts(80)
             ELSE IF car > Pts(50) THEN Pts(50)
             ELSE IF total <= 0 THEN None
             ELSE ((10 * active + 8 * pt + 5 * car) * 100) \div (Max(total, Pts(1)) \div 100)
    ELSE IF a21_2 = 1 THEN Pts(50)
         ELSE IF a21_2 = 2 THEN Pts(60)
         ELSE IF a21_2 = 3 THEN Pts(90)
         ELSE IF a21_2 = 4 THEN Pts(100)
         ELSE None

calc_A2_2(a22_1, a22_2, a22_3) ==
    LET S221 == score_1_3_100_50_10(a22_1)
        S222 == score_1_3_10_50_100(a22_2)
        S223 == IF a22_3 = 1 THEN Pts(100) ELSE IF a22_3 = 2 THEN Pts(50) ELSE None
    IN  IF None \in {S221, S222, S223} THEN None
        ELSE (50 * S221 + 20 * S222 + 30 * S223) \div 100

calc_A2_3(a23_1) == score_1_4_100_75_50_25(a23_1)

calc_A2_4(a24_1, a24_2) ==
    IF a24_1 = None /\ a24_2 = None THEN None
    ELSE IF a24_1 = None THEN a24_2
    ELSE IF a24_2 = None THEN a24_1
    ELSE (50 * a24_1 + 50 * a24_2) \div 100

calc_A2_5(a25_1, a25_2, a25_3) ==
    LET S251 == score_1_3_100_50_10(a25_1)
        S252 == a25_2
        S253 == score_1_3_100_50_10(a25_3)
    IN  IF S251 = None /\ S253 = None /\ S252 = None THEN None
        ELSE IF S252 = None
             THEN IF S251 = None \/ S253 = None THEN None
                  ELSE (75 * S251 + 25 * S253) \div 100
        ELSE IF S251 = None \/ S253 = None THEN None
        ELSE (50 * S251 + 30 * S252 + 20 * S253) \div 100

calc_A2_6(a26_1_p, a26_2, a26_2_1) ==
    LET S261 == score_1_3_100_50_10(a26_1_p)
        S262 == score_1_3_100_50_10(a26_2_1)
    IN  IF S261 = None THEN None
        ELSE IF a26_2 # 1 THEN S261
        ELSE IF S262 = None THEN S261
        ELSE (65 * S261 + 35 * S262) \div 100

\* ---------------------------------------------------------------- indicators A3
calc_A3_1(a31_1, a14_1) ==
    LET S311 == a31_1
        S312 == score_estado(a14_1)
    IN  IF S311 = None \/ S312 = None THEN None
        ELSE (60 * S311 + 40 * S312) \div 100

calc_A3_2(a32_1, a32_2, a14_1, A0_3) ==
    LET S321 == score_1_3_100_50_10(a32_1)
        S322 == score_1_3_100_50_10(a32_2)
    IN  IF A0_3 = 1
        THEN IF S321 = None \/ S322 = None THEN None
             ELSE (55 * S321 + 45 * S322) \div 100
        ELSE score_estado(a14_1)

calc_A3_3(a33_1, a33_2) ==
    LET S331 == score_1_3_100_50_10(a33_1)
        S332 == score_1_3_100_50_10(a33_2)
    IN  IF S331 = None \/ S332 = None THEN None
        ELSE (65 * S331 + 35 * S332) \div 100

calc_A3_4(a34_1) == score_1_3_100_50_10(a34_1)

calc_A3_5(a35_1) == score_1_3_100_50_10(a35_1)

calc_A3_6(a36_1, a36_2) ==
    IF a36_1 = None \/ a36_2 = None THEN None
    ELSE (60 * a36_1 + 40 * a36_2) \div 100

calc_A3_7(a37_1) == score_1_3_100_50_10(a37_1)

\* ---------------------------------------------------------------- indicators A4
\* Variant: a growth above 100 percent is returned as it is.
calc_A4_1_unclamped(a41_1, a41_before, a41_after, a41_2) ==
    IF a41_1 = 1
    THEN LET b == a41_before
             a == a41_after
         IN  IF (b = None \/ b <= 0) /\ (a = None \/ a <= 0) THEN Pts(0)
             ELSE IF b = None \/ b <= 0
                  THEN IF a # None /\ a > 0 THEN Pts(100) ELSE Pts(0)
             ELSE IF a = None THEN Pts(0)
             ELSE LET g == ((a - b) * Pts(100)) \div b
                  IN  IF g <= 0 THEN Pts(0) ELSE g
    ELSE IF a41_1 = 2 THEN score_1_3_100_50_10(a41_2)
    ELSE None

\* a41_before and a41_after arrive as raw counts (they are not converted to float).
calc_A4_1(a41_1, a41_before, a41_after, a41_2) ==
    IF a41_1 = 1
    THEN LET b == a41_before
             a == a41_after
         IN  IF (b = None \/ b <= 0) /\ (a = None \/ a <= 0) THEN Pts(0)
             ELSE IF b = None \/ b <= 0
                  THEN IF a # None /\ a > 0 THEN Pts(100) ELSE Pts(0)
             ELSE IF a = None THEN Pts(0)
             ELSE LET g == ((a - b) * Pts(100)) \div b
                  IN  IF g <= 0 THEN Pts(0)
                      ELSE IF g >= Pts(100) THEN Pts(100)
                      ELSE g
    ELSE IF a41_1 = 2 THEN score_1_3_100_50_10(a41_2)
    ELSE None

calc_A4_2(a42_1) == score_1_3_100_50_10(a42_1)

calc_A4_3(a43_1, a43_2) ==
    LET S431 == score_A4_3_1(a43_1)
        S432 == score_A4_3_2(a43_2)
    IN  IF S431 = None \/ S432 = None THEN None
        ELSE (60 * S431 + 40 * S432) \div 100

\* Variant: the count is multiplied by 10 without being clamped first.
calc_A4_5_unclamped(a45_1) ==
    IF a45_1 = None THEN None
    ELSE Pts(10 * a45_1)

calc_A4_5(a45_1) ==
    IF a45_1 = None THEN None
    ELSE Pts(10 * Max(0, Min(10, a45_1)))

calc_A4_6(S461, S462, A1_1) ==
    IF S461 = None \/ S462 = None \/ A1_1 = None THEN None
    ELSE (34 * S461 + 33 * S462 + 33 * A1_1) \div 100

RECURSIVE SeqSum(_)
SeqSum(s) == IF s = <<>> THEN 0 ELSE Head(s) + SeqSum(Tail(s))

\* Variant: the sum of the present indicators is divided by five, not by their number.
calc_A4_4_mean_of_five(A0_3, a44_1, a44_2, A4_1, A4_2, A4_3, A4_5, A4_6) ==
    IF A0_3 = 1
    THEN LET S441 == score_A4_4_1(a44_1)
             S442 == score_A4_4_2(a44_2)
         IN  IF S441 = None \/ S442 = None THEN None
             ELSE (40 * S441 + 60 * S442) \div 100
    ELSE LET vals == SelectSeq(<<A4_1, A4_2, A4_3, A4_5, A4_6>>, LAMBDA v : v # None)
         IN  IF vals = <<>> THEN None
             ELSE SeqSum(vals) \div 5

calc_A4_4(A0_3, a44_1, a44_2, A4_1, A4_2, A4_3, A4_5, A4_6) ==
    IF A0_3 = 1
    THEN LET S441 == score_A4_4_1(a44_1)
             S442 == score_A4_4_2(a44_2)
         IN  IF S441 = None \/ S442 = None THEN None
             ELSE (40 * S441 + 60 * S442) \div 100
    ELSE LET vals == SelectSeq(<<A4_1, A4_2, A4_3, A4_5, A4_6>>, LAMBDA v : v # None)
         IN  IF vals = <<>> THEN None
             ELSE SeqSum(vals) \div Len(vals)

\* ---------------------------------------------------------------- intangibles
\* The keys are the labels of the source without accents and line breaks.
\* Variant: Cuidado takes a third (0.33) of each of its three indicators.
calc_intangibles_A1_thirds(A1_1, A1_2, A1_3, A1_4, A1_5) ==
    [Diversidad |-> nz(A1_1),
     Cuidado |-> (33 * nz(A1_1) + 33 * nz(A1_2) + 33 * nz(A1_4)) \div 100,
     Comunidad |-> (50 * nz(A1_2) + 50 * nz(A1_3)) \div 100,
     Compartido |-> nz(A1_2),
     Simbolos |-> nz(A1_2),
     Orgullo |-> nz(A1_3),
     Amigable |-> nz(A1_5),
     Interactivo |-> nz(A1_5)]

calc_intangibles_A1(A1_1, A1_2, A1_3, A1_4, A1_5) ==
    [Diversidad |-> nz(A1_1),
     Cuidado |-> (34 * nz(A1_1) + 33 * nz(A1_2) + 33 * nz(A1_4)) \div 100,
     Comunidad |-> (50 * nz(A1_2) + 50 * nz(A1_3)) \div 100,
     Compartido |-> nz(A1_2),
     Simbolos |-> nz(A1_2),
     Orgullo |-> nz(A1_3),
     Amigable |-> nz(A1_5),
     Interactivo |-> nz(A1_5)]

calc_intangibles_A2(A2_1, A2_2, A2_3, A2_4, A2_5, A2_6, A3_4) ==
    [Cercano |-> (50 * nz(A2_1) + 50 * nz(A2_2)) \div 100,
     Conectado |-> (50 * nz(A2_1) + 50 * nz(A2_2)) \div 100,
     Conveniente |-> (34 * nz(A2_2) + 33 * nz(A2_3) + 33 * nz(A2_4)) \div 100,
     Accesible_movilidad_reducida |-> (50 * nz(A2_4) + 50 * nz(A2_5)) \div 100,
     Accesible_primera_infancia_y_cuidadores |-> nz(A2_6),
     Transitable |-> (50 * nz(A3_4) + 25 * nz(A2_4) + 25 * nz(A2_5)) \div 100]

calc_intangibles_A3(A3_1, A3_2, A3_3, A3_4, A3_5, A3_6, A3_7) ==
    [Limpio |-> nz(A3_1),
     Seguro |-> nz(A3_1),
     Sentable |-> (34 * nz(A3_2) + 33 * nz(A3_3) + 33 * nz(A3_5)) \div 100,
     Agradable |-> (25 * nz(A3_2) + 25 * nz(A3_3) + 25 * nz(A3_6) + 25 * nz(A3_7)) \div 100,
     Verde |-> (50 * nz(A3_3) + 50 * nz(A3_6)) \div 100,
     Caminable |-> nz(A3_4),
     Resiliencia_climatica |-> nz(A3_6)]

calc_intangibles_A4(A4_1, A4_2, A4_3, A4_4, A4_5, A4_6) ==
    [Dinamico |-> (34 * nz(A4_1) + 33 * nz(A4_5) + 33 * nz(A4_6)) \div 100,
     Especial |-> (50 * nz(A4_1) + 50 * nz(A4_2)) \div 100,
     Real |-> (50 * nz(A4_2) + 50 * nz(A4_3)) \div 100,
     Util |-> (50 * nz(A4_2) + 50 * nz(A4_3)) \div 100,
     Local |-> (33 * nz(A4_4) + 34 * nz(A4_5) + 33 * nz(A4_6)) \div 100,
     Sostenible |-> nz(A4_4),
     Conmemorativo |-> nz(A4_4),
     Comunidad |-> nz(A4_6)]

\* ---------------------------------------------------------------- program catalog
ProgramIds ==
    {"OTRO", "FIESTA", "LAPIS_PRIV", "LAPIS_PUB", "LAPIS_PLUS", "PINTA_CANCHA", "CANCHAS_PM",
     "REL_COM", "BACKING", "MENU_DIA", "SHE", "ECO_ADAPT", "SALUD_DIGNA", "PM_CAMP"}

Sections == {"Encuentro", "Conexiones", "Comodidad", "Usos"}

AttributeIds == {"A1", "A2", "A3", "A4"}

IndicatorIds(attribute_id) ==
    CASE attribute_id = "A1" -> {"A1.1", "A1.2", "A1.3", "A1.4", "A1.5"}
      [] attribute_id = "A2" -> {"A2.1", "A2.2", "A2.3", "A2.4", "A2.5", "A2.6"}
      [] attribute_id = "A3" -> {"A3.1", "A3.2", "A3.3", "A3.4", "A3.5", "A3.6", "A3.7"}
      [] attribute_id = "A4" -> {"A4.1", "A4.2", "A4.3", "A4.4", "A4.5", "A4.6"}

COMMON_SECTION_WEIGHTS ==
    [Encuentro |-> 25, Conexiones |-> 25, Comodidad |-> 25, Usos |-> 25]

program_entry(indicator_weights) ==
    [indicator_weights |-> indicator_weights, section_weights |-> COMMON_SECTION_WEIGHTS]

\* The table as the source file writes it (weights in hundredths).
PROGRAM_CONFIG_literal ==
    LET A2base == ("A2.1" :> 70 @@ "A2.3" :> 70)
        A2inf == ("A2.1" :> 70 @@ "A2.3" :> 70 @@ "A2.6" :> 150)
        A2con == ("A2.1" :> 70 @@ "A2.2" :> 150 @@ "A2.3" :> 70)
        A44low == ("A4.4" :> 30)
        A4eco == ("A4.4" :> 250 @@ "A4.5" :> 30)
    IN  [p \in ProgramIds |->
           CASE p = "OTRO" -> program_entry(EmptyDict)
             [] p = "FIESTA" -> program_entry("A2" :> A2inf @@ "A4" :> A44low)
             [] p = "LAPIS_PRIV" ->
                    program_entry("A2" :> A2inf @@ "A3" :> ("A3.3" :> 150) @@ "A4" :> A44low)
             [] p = "LAPIS_PUB" ->
                    program_entry("A1" :> ("A1.2" :> 0 @@ "A1.5" :> 0) @@ "A2" :> A2inf
                                  @@ "A3" :> ("A3.3" :> 150) @@ "A4" :> A44low)
             [] p = "LAPIS_PLUS" ->
                    program_entry("A2" :> A2inf @@ "A3" :> ("A3.3" :> 150) @@ "A4" :> A44low)
             [] p = "PINTA_CANCHA" ->
                    program_entry("A2" :> A2inf @@ "A3" :> ("A3.3" :> 50) @@ "A4" :> A44low)
             [] p = "CANCHAS_PM" ->
                    program_entry("A2" :> A2inf @@ "A3" :> ("A3.3" :> 50) @@ "A4" :> A44low)
             [] p = "REL_COM" ->
                    program_entry("A2" :> ("A2.1" :> 70 @@ "A2.2" :> 150 @@ "A2.3" :> 70
                                           @@ "A2.6" :> 150)
                                  @@ "A4" :> A44low)
             [] p = "BACKING" -> program_entry("A2" :> A2base @@ "A4" :> A4eco)
             [] p = "MENU_DIA" -> program_entry("A2" :> A2base @@ "A4" :> A4eco)
             [] p = "SHE" ->
                    program_entry("A1" :> ("A1.1" :> 0 @@ "A1.2" :> 0 @@ "A1.5" :> 200)
                                  @@ "A2" :> A2con @@ "A3" :> ("A3.3" :> 50) @@ "A4" :> A44low)
             [] p = "ECO_ADAPT" -> program_entry("A2" :> A2base @@ "A4" :> A44low)
             [] p = "SALUD_DIGNA" -> program_entry("A2" :> A2base @@ "A4" :> A44low)
             [] p = "PM_CAMP" -> program_entry(EmptyDict)]

\* One change of the table: an indicator weight override set, a program's section
\* weights replaced, or a program's section weights all multiplied by a factor.
apply_edit(config, e) ==
    LET entry == config[e.program]
    IN  IF e.op = "set_indicator_weight"
        THEN LET old == dict_get(entry.indicator_weights, e.attribute, EmptyDict)
                 new == dict_set(old, e.indicator, e.weight)
             IN  [config EXCEPT ![e.program].indicator_weights = dict_set(@, e.attribute, new)]
        ELSE IF e.op = "set_section_weights"
        THEN [config EXCEPT ![e.program].section_weights = e.weights]
        ELSE [config EXCEPT ![e.program].section_weights =
                                [k \in DOMAIN @ |-> e.factor * @[k]]]

RECURSIVE apply_edits(_, _)
apply_edits(config, es) ==
    IF es = <<>> THEN config ELSE apply_edits(apply_edit(config, Head(es)), Tail(es))

\* The table the engine reads: the literal of the source file with config_edits applied.
PROGRAM_CONFIG == apply_edits(PROGRAM_CONFIG_literal, config_edits)

\* ---------------------------------------------------------------- weighting layer
\* Sum of d[k] over the keys k in ks
RECURSIVE DictSum(_, _)
DictSum(d, ks) ==
    IF ks = {} THEN 0
    ELSE LET k == CHOOSE x \in ks : TRUE IN d[k] + DictSum(d, ks \ {k})

\* A float weight that came out of a division is kept as the exact fraction <<n, d>>.
Frac(n, d) == <<n, d>>

FracAdd(x, y) ==
    IF x[2] = y[2] THEN <<x[1] + y[1], x[2]>>
    ELSE IF x[1] = 0 THEN y
    ELSE IF y[1] = 0 THEN x
    ELSE <<x[1] * y[2] + y[1] * x[2], x[2] * y[2]>>

FracTimes(x, v) == <<x[1] * v, x[2]>>

FracPositive(x) == x[1] > 0

\* x / y, both positive, rounded down to an integer
FracQuotient(x, y) ==
    IF x[2] = y[2] THEN x[1] \div y[1] ELSE (x[1] * y[2]) \div (y[1] * x[2])

\* Variant: an id outside the table is given the overrides of "FIESTA".
get_indicator_weights_unknown_as_FIESTA(program_id, attribute_id, indicators) ==
    LET program_cfg == dict_get(PROGRAM_CONFIG, program_id, PROGRAM_CONFIG["FIESTA"])
        attr_weights ==
            dict_get(dict_get(program_cfg, "indicator_weights", EmptyDict), attribute_id, EmptyDict)
    IN  IF DOMAIN attr_weights = {}
        THEN [ind_id \in DOMAIN indicators |-> 100]
        ELSE [ind_id \in DOMAIN indicators |-> dict_get(attr_weights, ind_id, 100)]

\* Variant: an override of 0 counts as no override (attr_weights.get(ind_id) or 1.0).
get_indicator_weights_zero_as_default(program_id, attribute_id, indicators) ==
    LET program_cfg == dict_get(PROGRAM_CONFIG, program_id, EmptyDict)
        attr_weights ==
            dict_get(dict_get(program_cfg, "indicator_weights", EmptyDict), attribute_id, EmptyDict)
        w(ind_id) == dict_get(attr_weights, ind_id, 100)
    IN  IF DOMAIN attr_weights = {}
        THEN [ind_id \in DOMAIN indicators |-> 100]
        ELSE [ind_id \in DOMAIN indicators |-> IF w(ind_id) = 0 THEN 100 ELSE w(ind_id)]

\* Variant: a program without overrides for the attribute takes those of "LAPIS_PUB".
get_indicator_weights_shared_overrides(program_id, attribute_id, indicators) ==
    LET overrides(pid) ==
            dict_get(dict_get(dict_get(PROGRAM_CONFIG, pid, EmptyDict),
                              "indicator_weights", EmptyDict), attribute_id, EmptyDict)
        attr_weights ==
            IF DOMAIN overrides(program_id) = {} THEN overrides("LAPIS_PUB")
            ELSE overrides(program_id)
    IN  IF DOMAIN attr_weights = {}
        THEN [ind_id \in DOMAIN indicators |-> 100]
        ELSE [ind_id \in DOMAIN indicators |-> dict_get(attr_weights, ind_id, 100)]

get_indicator_weights(program_id, attribute_id, indicators) ==
    LET program_cfg == dict_get(PROGRAM_CONFIG, program_id, EmptyDict)
        attr_weights ==
            dict_get(dict_get(program_cfg, "indicator_weights", EmptyDict), attribute_id, EmptyDict)
    IN  IF DOMAIN attr_weights = {}
        THEN [ind_id \in DOMAIN indicators |-> 100]
        ELSE [ind_id \in DOMAIN indicators |-> dict_get(attr_weights, ind_id, 100)]

\* Variant: the configured weights are returned without dividing by their sum.
get_section_weights_unnormalized(program_id) ==
    LET program_cfg == dict_get(PROGRAM_CONFIG, program_id, EmptyDict)
        section_weights == dict_get(program_cfg, "section_weights", COMMON_SECTION_WEIGHTS)
    IN  [k \in DOMAIN section_weights |-> Frac(section_weights[k], 100)]

get_section_weights(program_id) ==
    LET program_cfg == dict_get(PROGRAM_CONFIG, program_id, EmptyDict)
        section_weights == dict_get(program_cfg, "section_weights", COMMON_SECTION_WEIGHTS)
        total == DictSum(section_weights, DOMAIN section_weights)
    IN  IF total = 0
        THEN [k \in DOMAIN section_weights |-> Frac(section_weights[k], 100)]
        ELSE [k \in DOMAIN section_weights |-> Frac(section_weights[k], total)]

\* Variant: the weights of absent indicators stay in the denominator.
compute_attribute_total_all_in_den(program_id, attribute_id, indicators) ==
    IF DOMAIN indicators = {} THEN 0
    ELSE LET weights == get_indicator_weights(program_id, attribute_id, indicators)
             present == {ind_id \in DOMAIN indicators : indicators[ind_id] # None}
             num == DictSum([i \in present |-> dict_get(weights, i, 100) * indicators[i]], present)
             den == DictSum(weights, DOMAIN indicators)
         IN  IF den > 0 THEN num \div den ELSE 0

\* Variant: an absent indicator enters the average as a score of 0 with weight 1.0.
compute_attribute_total_absent_as_zero(program_id, attribute_id, indicators) ==
    IF DOMAIN indicators = {} THEN 0
    ELSE LET weights == get_indicator_weights(program_id, attribute_id, indicators)
             present == {ind_id \in DOMAIN indicators : indicators[ind_id] # None}
             num == DictSum([i \in present |-> dict_get(weights, i, 100) * indicators[i]], present)
             den == DictSum([i \in present |-> dict_get(weights, i, 100)], present)
                    + 100 * Cardinality(DOMAIN indicators \ present)
         IN  IF den > 0 THEN num \div den ELSE 0

compute_attribute_total(program_id, attribute_id, indicators) ==
    IF DOMAIN indicators = {} THEN 0
    ELSE LET weights == get_indicator_weights(program_id, attribute_id, indicators)
             present == {ind_id \in DOMAIN indicators : indicators[ind_id] # None}
             num == DictSum([i \in present |-> dict_get(weights, i, 100) * indicators[i]], present)
             den == DictSum([i \in present |-> dict_get(weights, i, 100)], present)
         IN  IF den > 0 THEN num \div den ELSE 0

compute_section_scores(A1_total, A2_total, A3_total, A4_total) ==
    [Encuentro |-> A1_total, Conexiones |-> A2_total, Comodidad |-> A3_total, Usos |-> A4_total]

RECURSIVE FracSum(_, _)
FracSum(d, ks) ==
    IF ks = {} THEN Frac(0, 1)
    ELSE LET k == CHOOSE x \in ks : TRUE IN FracAdd(d[k], FracSum(d, ks \ {k}))

\* Variant: the configured weights are used as they are and the weighted sum is
\* not divided by the weight of the present sections.
compute_global_score_raw_sum(program_id, section_scores) ==
    IF DOMAIN section_scores = {} THEN 0
    ELSE LET program_cfg == dict_get(PROGRAM_CONFIG, program_id, EmptyDict)
             section_weights == dict_get(program_cfg, "section_weights", COMMON_SECTION_WEIGHTS)
             present == {s \in DOMAIN section_scores : section_scores[s] # None}
             w == [s \in present |-> dict_get(section_weights, s, 0)]
             num == DictSum([s \in present |-> w[s] * section_scores[s]], present)
             den == DictSum(w, present)
         IN  IF den > 0 THEN num \div 100 ELSE 0

compute_global_score(program_id, section_scores) ==
    IF DOMAIN section_scores = {} THEN 0
    ELSE LET section_weights == get_section_weights(program_id)
             present == {s \in DOMAIN section_scores : section_scores[s] # None}
             w == [s \in present |-> dict_get(section_weights, s, Frac(0, 1))]
             num == FracSum([s \in present |-> FracTimes(w[s], section_scores[s])], present)
             den == FracSum(w, present)
         IN  IF FracPositive(den) THEN FracQuotient(num, den) ELSE 0

\* ---------------------------------------------------------------- results page
\* float(v) of a raw percentage or 0-100 slider value, in thousandths
float_int(v) == Pts(v)

\* float(v) of a 0.0-10.0 number input kept in tenths, in thousandths
float_tenths(v) == v * 100

ModalShareKeys == {"a21_1_walk", "a21_1_bike", "a21_1_pt", "a21_1_car"}

\* The score computation of pagina_resultados on the answer record ans.
pagina_resultados(ans) ==
    LET program_id ==
            IF "program_id" \in DOMAIN ans /\ ans["program_id"] # "" THEN ans["program_id"]
            ELSE "OTRO"
        A0_3 == LET v == dict_get(ans, "A0_3", 2) IN IF truthy(v) THEN v ELSE 2
        \* None if ans.get(na_key) else (float(v) if v is not None else None)
        pct(key, na_key) ==
            IF truthy(get(ans, na_key)) THEN None
            ELSE IF get(ans, key) = None THEN None ELSE float_int(get(ans, key))
        a11_1 == pct("a11_1", "a11_1_na")
        a11_2 == IF truthy(get(ans, "a11_2_na")) THEN None
                 ELSE IF get(ans, "a11_2") = None THEN None ELSE float_tenths(get(ans, "a11_2"))
        a12_1 == get(ans, "a12_1")
        a12_2_1 == get(ans, "a12_2_1")
        a12_2_2 == get(ans, "a12_2_2")
        a12_3 == get(ans, "a12_3")
        a13_1 == get(ans, "a13_1")
        a14_1 == get(ans, "a14_1")
        a15_1 == get(ans, "a15_1")
        a15_2 == get(ans, "a15_2")
        A1_1 == calc_A1_1(a11_1, a11_2)
        A1_2 == calc_A1_2(a12_1, a12_2_1, a12_2_2, a12_3)
        A1_3 == calc_A1_3(a12_1, a13_1, a12_2_1, a12_2_2)
        A1_4 == calc_A1_4(A1_3, a14_1)
        A1_5 == calc_A1_5(a12_3, a15_1, a15_2)
        A1_indicators ==
            ("A1.1" :> A1_1 @@ "A1.2" :> A1_2 @@ "A1.3" :> A1_3 @@ "A1.4" :> A1_4 @@ "A1.5" :> A1_5)
        \* A3
        a31_1 == IF get(ans, "a31_1") # None THEN float_int(get(ans, "a31_1")) ELSE None
        a36_1 == pct("a36_1", "a36_1_na")
        a36_2 == pct("a36_2", "a36_2_na")
        A3_1 == calc_A3_1(a31_1, a14_1)
        A3_2 == calc_A3_2(get(ans, "a32_1"), get(ans, "a32_2"), a14_1, A0_3)
        A3_3 == calc_A3_3(get(ans, "a33_1"), get(ans, "a33_2"))
        A3_4 == calc_A3_4(get(ans, "a34_1"))
        A3_5 == calc_A3_5(get(ans, "a35_1"))
        A3_6 == calc_A3_6(a36_1, a36_2)
        A3_7 == calc_A3_7(get(ans, "a37_1"))
        A3_indicators ==
            ("A3.1" :> A3_1 @@ "A3.2" :> A3_2 @@ "A3.3" :> A3_3 @@ "A3.4" :> A3_4
             @@ "A3.5" :> A3_5 @@ "A3.6" :> A3_6 @@ "A3.7" :> A3_7)
        \* A2
        a21_use_percent == get(ans, "a21_use_percent")
        \* float(ans.get(k, 0)) raises TypeError when the key holds None
        float_raises == a21_use_percent = 1 /\ \E k \in ModalShareKeys : dict_get(ans, k, 0) = None
        share(k) == IF a21_use_percent = 1 THEN float_int(dict_get(ans, k, 0)) ELSE None
        a21_2 == IF a21_use_percent = 1 THEN None ELSE get(ans, "a21_2")
        a24_1 == pct("a24_1", "a24_1_na")
        a24_2 == IF truthy(get(ans, "a24_2_na")) THEN None
                 ELSE IF get(ans, "a24_2") = None THEN None
                 ELSE float_tenths(get(ans, "a24_2")) * 10
        a25_2 == IF truthy(get(ans, "a25_2_na")) THEN None
                 ELSE IF get(ans, "a25_2") = None THEN None
                 ELSE float_tenths(get(ans, "a25_2")) * 10
        A2_1 == calc_A2_1(share("a21_1_walk"), share("a21_1_bike"), share("a21_1_pt"),
                          share("a21_1_car"), a21_2)
        A2_2 == calc_A2_2(get(ans, "a22_1"), get(ans, "a22_2"), get(ans, "a22_3"))
        A2_3 == calc_A2_3(get(ans, "a23_1"))
        A2_4 == calc_A2_4(a24_1, a24_2)
        A2_5 == calc_A2_5(get(ans, "a25_1"), a25_2, get(ans, "a25_3"))
        A2_6 == calc_A2_6(get(ans, "a26_1_p"), get(ans, "a26_2"), get(ans, "a26_2_1"))
        A2_indicators ==
            ("A2.1" :> A2_1 @@ "A2.2" :> A2_2 @@ "A2.3" :> A2_3 @@ "A2.4" :> A2_4
             @@ "A2.5" :> A2_5 @@ "A2.6" :> A2_6)
        \* A4
        a41_1 == get(ans, "a41_1")
        a41_before == dict_get(ans, "a41_before", 0)
        a41_after == dict_get(ans, "a41_after", 0)
        a45_1 == dict_get(ans, "a45_1", 0)
        A4_1 == calc_A4_1(a41_1, a41_before, a41_after, get(ans, "a41_2"))
        A4_2 == calc_A4_2(get(ans, "a42_1"))
        A4_3 == calc_A4_3(get(ans, "a43_1"), get(ans, "a43_2"))
        A4_5 == calc_A4_5(a45_1)
        S461 == score_1_3_100_50_10(get(ans, "a46_1"))
        S462 == score_A1_5_1(a15_1)
        A4_6 == calc_A4_6(S461, S462, A1_1)
        A4_4 == calc_A4_4(A0_3, get(ans, "a44_1"), get(ans, "a44_2"), A4_1, A4_2, A4_3, A4_5, A4_6)
        A4_indicators ==
            ("A4.1" :> A4_1 @@ "A4.2" :> A4_2 @@ "A4.3" :> A4_3 @@ "A4.4" :> A4_4
             @@ "A4.5" :> A4_5 @@ "A4.6" :> A4_6)
        \* totals and global score
        A1_total == compute_attribute_total(program_id, "A1", A1_indicators)
        A2_total == compute_attribute_total(program_id, "A2", A2_indicators)
        A3_total == compute_attribute_total(program_id, "A3", A3_indicators)
        A4_total == compute_attribute_total(program_id, "A4", A4_indicators)
        section_scores == compute_section_scores(A1_total, A2_total, A3_total, A4_total)
        global_score == compute_global_score(program_id, section_scores)
    IN  IF float_raises THEN [status |-> "raised"]
        ELSE [status |-> "ok",
              program_id |-> program_id,
              indicators |-> A1_indicators @@ A2_indicators @@ A3_indicators @@ A4_indicators,
              section_scores |-> section_scores,
              global_score |-> global_score]

\* ---------------------------------------------------------------- answer domains
PctValues == {(100 * i) \div PctGrid : i \in 0..PctGrid}

\* a 0.0-10.0 number input, in tenths
TenthValues == {(100 * i) \div PctGrid : i \in 0..PctGrid}

CountValues == {50 * i : i \in 0..MaxCountSteps}

ActivityValues == {(10 * i) \div PctGrid : i \in 0..PctGrid}

Radio2Keys == {"A0_3", "a21_use_percent", "a22_3", "a26_2", "a41_1"}

Radio3Keys ==
    {"a12_1", "a12_2_1", "a12_3", "a15_1", "a22_1", "a22_2", "a25_1", "a25_3", "a26_1_p",
     "a26_2_1", "a32_1", "a32_2", "a33_1", "a33_2", "a34_1", "a35_1", "a37_1", "a41_2",
     "a42_1", "a44_1", "a44_2", "a46_1"}

Radio4Keys == {"a12_2_2", "a13_1", "a14_1", "a15_2", "a21_2", "a23_1", "a43_1", "a43_2"}

PercentKeys == {"a11_1", "a24_1", "a31_1", "a36_1", "a36_2"} \cup ModalShareKeys

TenthKeys == {"a11_2", "a24_2", "a25_2"}

FlagKeys ==
    {"a11_1_na", "a11_2_na", "a24_1_na", "a24_2_na", "a25_2_na", "a36_1_na", "a36_2_na"}

CountKeys == {"a41_before", "a41_after"}

AnswerKeys ==
    Radio2Keys \cup Radio3Keys \cup Radio4Keys \cup PercentKeys \cup TenthKeys \cup FlagKeys
    \cup CountKeys \cup {"a45_1"}

\* the values the widget of key k can store
KeyDomain(k) ==
    IF k \in Radio2Keys THEN 1..2
    ELSE IF k \in Radio3Keys THEN 1..3
    ELSE IF k \in Radio4Keys THEN 1..4
    ELSE IF k \in PercentKeys THEN PctValues
    ELSE IF k \in TenthKeys THEN TenthValues
    ELSE IF k \in FlagKeys THEN {0, 1}
    ELSE IF k \in CountKeys THEN CountValues
    ELSE ActivityValues

\* program ids an answer record may carry: the catalog, an id outside it, the empty id
ProgramChoices == ProgramIds \cup {"NO_SUCH_PROGRAM", ""}

\* What the five pages store on the first script run, when no widget has been touched:
\* every radio its first option, every slider and number input its minimum, every
\* check box False, and the branches of a12_1 = 1, a15_1 = 1, a21_use_percent = 1,
\* a26_2 = 1, A0_3 = 1 and a41_1 = 1.
FirstRunAnswers ==
    [k \in AnswerKeys \ {"a12_2_1", "a21_2"} |->
        IF k \in Radio2Keys \cup Radio3Keys \cup Radio4Keys THEN 1 ELSE 0]

NoReport == [status |-> "none"]

NoCall == [fn |-> "none"]

\* ---------------------------------------------------------------- Spec: the results page
Init ==
    /\ answers = EmptyDict
    /\ report = NoReport
    /\ steps = 0
    /\ config_edits = <<>>
    /\ call = NoCall
    /\ save_pending = FALSE
    /\ saved_to_sheet = FALSE
    /\ sheet = <<>>
    /\ env = EmptyDict
    /\ widgets = EmptyDict
    /\ force_reload = FALSE
    /\ appended = 0

\* pagina_antes: the program select box stores its id; the results page follows in the run
select_program(pid) ==
    /\ steps = 0
    /\ answers' = dict_set(answers, "program_id", pid)
    /\ report' = pagina_resultados(answers')
    /\ UNCHANGED <<steps, config_edits, call, save_pending, saved_to_sheet, sheet,
                   env, widgets, force_reload, appended>>

\* first script run of a session: the pages store the widgets' defaults
first_run ==
    /\ DOMAIN answers \subseteq {"program_id"}
    /\ answers' = FirstRunAnswers @@ ("program_id" :> dict_get(answers, "program_id", "OTRO"))
    /\ report' = pagina_resultados(answers')
    /\ UNCHANGED <<steps, config_edits, call, save_pending, saved_to_sheet, sheet,
                   env, widgets, force_reload, appended>>

\* set_ans(key, value), then the results page
set_ans(key, value) ==
    /\ steps < MaxEdits
    /\ answers' = dict_set(answers, key, value)
    /\ report' = pagina_resultados(answers')
    /\ steps' = steps + 1
    /\ UNCHANGED <<config_edits, call, save_pending, saved_to_sheet, sheet, env,
                   widgets, force_reload, appended>>

\* _clear_answer(key), then the results page
clear_answer(key) ==
    /\ steps < MaxEdits
    /\ key \in DOMAIN answers
    /\ answers' = dict_pop(answers, key)
    /\ report' = pagina_resultados(answers')
    /\ steps' = steps + 1
    /\ UNCHANGED <<config_edits, call, save_pending, saved_to_sheet, sheet, env,
                   widgets, force_reload, appended>>

Next ==
    \/ steps = 0 /\ \E pid \in ProgramChoices : select_program(pid)
    \/ first_run
    \/ steps < MaxEdits
       /\ \E key \in AnswerKeys : \E value \in KeyDomain(key) \cup {None} : set_ans(key, value)
    \/ steps < MaxEdits /\ \E key \in AnswerKeys : clear_answer(key)

Spec == Init /\ [][Next]_vars

\* ---------------------------------------------------------------- SpecCalc: the calculators
\* Each action is one call of an indicator calculator on in-domain arguments (None for
\* an absent answer); call records the function, its arguments and what it returned.
\* The functions are pure, so a behaviour is one call from the initial state.
Opt(S) == S \cup {None}

FloatPercents == {float_int(v) : v \in PctValues}

\* float(v) of the positions of a 0-100 slider, on the finer grid
FloatShares == {float_int((100 * i) \div ShareGrid) : i \in 0..ShareGrid}

FloatTenths == {float_tenths(v) : v \in TenthValues}

FloatTenthsTimes10 == {float_tenths(v) * 10 : v \in TenthValues}

\* in-range values of an indicator that another calculator takes as an argument
ScoreValues == {Pts(v) : v \in PctValues}

\* integer counts given to calc_A4_5: the slider's 0..10, and counts on either side of it
ActivityCounts == -2 .. 12

Called(fn, args, ret) ==
    /\ call' = [fn |-> fn, args |-> args, ret |-> ret]
    /\ UNCHANGED <<answers, report, steps, config_edits, save_pending, saved_to_sheet,
                   sheet, env, widgets, force_reload, appended>>

Call_calc_A1_1 ==
    /\ call = NoCall
    /\ \E a11_1 \in Opt(FloatShares), a11_2 \in Opt(FloatShares \cup FloatTenths) :
           Called("calc_A1_1", <<a11_1, a11_2>>, calc_A1_1(a11_1, a11_2))

Call_calc_A1_2 ==
    /\ call = NoCall
    /\ \E a12_1 \in Opt(1..3), a12_2_1 \in Opt(1..3), a12_2_2 \in Opt(1..4), a12_3 \in Opt(1..3) :
           Called("calc_A1_2", <<a12_1, a12_2_1, a12_2_2, a12_3>>, calc_A1_2(a12_1, a12_2_1, a12_2_2, a12_3))

Call_calc_A1_3 ==
    /\ call = NoCall
    /\ \E a12_1 \in Opt(1..3), a13_1 \in Opt(1..4), a12_2_1 \in Opt(1..3), a12_2_2 \in Opt(1..4) :
           Called("calc_A1_3", <<a12_1, a13_1, a12_2_1, a12_2_2>>, calc_A1_3(a12_1, a13_1, a12_2_1, a12_2_2))

Call_calc_A1_4 ==
    /\ call = NoCall
    /\ \E A1_3 \in Opt(ScoreValues), a14_1 \in Opt(1..4) :
           Called("calc_A1_4", <<A1_3, a14_1>>, calc_A1_4(A1_3, a14_1))

Call_calc_A1_5 ==
    /\ call = NoCall
    /\ \E a12_3 \in Opt(1..3), a15_1 \in Opt(1..3), a15_2 \in Opt(1..4) :
           Called("calc_A1_5", <<a12_3, a15_1, a15_2>>, calc_A1_5(a12_3, a15_1, a15_2))

Call_calc_A2_1 ==
    /\ call = NoCall
    /\ \E a_walk \in Opt(FloatShares),
          a_bike \in Opt(FloatShares),
          a_pt \in Opt(FloatShares),
          a_car \in Opt(FloatShares),
          a21_2 \in Opt(0..5) :
           Called("calc_A2_1", <<a_walk, a_bike, a_pt, a_car, a21_2>>, calc_A2_1(a_walk, a_bike, a_pt, a_car, a21_2))

Call_calc_A2_2 ==
    /\ call = NoCall
    /\ \E a22_1 \in Opt(1..3), a22_2 \in Opt(1..3), a22_3 \in Opt(1..2) :
           Called("calc_A2_2", <<a22_1, a22_2, a22_3>>, calc_A2_2(a22_1, a22_2, a22_3))

Call_calc_A2_3 ==
    /\ call = NoCall
    /\ \E a23_1 \in Opt(1..4) :
           Called("calc_A2_3", <<a23_1>>, calc_A2_3(a23_1))

Call_calc_A2_4 ==
    /\ call = NoCall
    /\ \E a24_1 \in Opt(FloatPercents), a24_2 \in Opt(FloatTenthsTimes10) :
           Called("calc_A2_4", <<a24_1, a24_2>>, calc_A2_4(a24_1, a24_2))

Call_calc_A2_5 ==
    /\ call = NoCall
    /\ \E a25_1 \in Opt(1..3), a25_2 \in Opt(FloatTenthsTimes10), a25_3 \in Opt(1..3) :
           Called("calc_A2_5", <<a25_1, a25_2, a25_3>>, calc_A2_5(a25_1, a25_2, a25_3))

Call_calc_A2_6 ==
    /\ call = NoCall
    /\ \E a26_1_p \in Opt(1..3), a26_2 \in Opt(1..2), a26_2_1 \in Opt(1..3) :
           Called("calc_A2_6", <<a26_1_p, a26_2, a26_2_1>>, calc_A2_6(a26_1_p, a26_2, a26_2_1))

Call_calc_A3_1 ==
    /\ call = NoCall
    /\ \E a31_1 \in Opt(FloatPercents), a14_1 \in Opt(1..4) :
           Called("calc_A3_1", <<a31_1, a14_1>>, calc_A3_1(a31_1, a14_1))

Call_calc_A3_2 ==
    /\ call = NoCall
    /\ \E a32_1 \in Opt(1..3), a32_2 \in Opt(1..3), a14_1 \in Opt(1..4), A0_3 \in 1..2 :
           Called("calc_A3_2", <<a32_1, a32_2, a14_1, A0_3>>, calc_A3_2(a32_1, a32_2, a14_1, A0_3))

Call_calc_A3_3 ==
    /\ call = NoCall
    /\ \E a33_1 \in Opt(1..3), a33_2 \in Opt(1..3) :
           Called("calc_A3_3", <<a33_1, a33_2>>, calc_A3_3(a33_1, a33_2))

Call_calc_A3_4 ==
    /\ call = NoCall
    /\ \E a34_1 \in Opt(1..3) :
           Called("calc_A3_4", <<a34_1>>, calc_A3_4(a34_1))

Call_calc_A3_5 ==
    /\ call = NoCall
    /\ \E a35_1 \in Opt(1..3) :
           Called("calc_A3_5", <<a35_1>>, calc_A3_5(a35_1))

Call_calc_A3_6 ==
    /\ call = NoCall
    /\ \E a36_1 \in Opt(FloatPercents), a36_2 \in Opt(FloatPercents) :
           Called("calc_A3_6", <<a36_1, a36_2>>, calc_A3_6(a36_1, a36_2))

Call_calc_A3_7 ==
    /\ call = NoCall
    /\ \E a37_1 \in Opt(1..3) :
           Called("calc_A3_7", <<a37_1>>, calc_A3_7(a37_1))

Call_calc_A4_1 ==
    /\ call = NoCall
    /\ \E a41_1 \in Opt(1..2),
          a41_before \in Opt(CountValues),
          a41_after \in Opt(CountValues),
          a41_2 \in Opt(1..3) :
           Called("calc_A4_1", <<a41_1, a41_before, a41_after, a41_2>>, calc_A4_1(a41_1, a41_before, a41_after, a41_2))

Call_calc_A4_2 ==
    /\ call = NoCall
    /\ \E a42_1 \in Opt(1..3) :
           Called("calc_A4_2", <<a42_1>>, calc_A4_2(a42_1))

Call_calc_A4_3 ==
    /\ call = NoCall
    /\ \E a43_1 \in Opt(1..4), a43_2 \in Opt(1..4) :
           Called("calc_A4_3", <<a43_1, a43_2>>, calc_A4_3(a43_1, a43_2))

Call_calc_A4_5 ==
    /\ call = NoCall
    /\ \E a45_1 \in Opt(ActivityCounts) :
           Called("calc_A4_5", <<a45_1>>, calc_A4_5(a45_1))

Call_calc_A4_6 ==
    /\ call = NoCall
    /\ \E S461 \in {score_1_3_100_50_10(x) : x \in Opt(1..3)},
          S462 \in {score_A1_5_1(x) : x \in Opt(1..3)},
          A1_1 \in Opt(ScoreValues) :
           Called("calc_A4_6", <<S461, S462, A1_1>>, calc_A4_6(S461, S462, A1_1))

Call_calc_A4_4 ==
    /\ call = NoCall
    /\ \E A0_3 \in 1..2,
          a44_1 \in Opt(1..3),
          a44_2 \in Opt(1..3),
          A4_1 \in Opt(ScoreValues),
          A4_2 \in Opt(ScoreValues),
          A4_3 \in Opt(ScoreValues),
          A4_5 \in Opt(ScoreValues),
          A4_6 \in Opt(ScoreValues) :
           Called("calc_A4_4", <<A0_3, a44_1, a44_2, A4_1, A4_2, A4_3, A4_5, A4_6>>, calc_A4_4(A0_3, a44_1, a44_2, A4_1, A4_2, A4_3, A4_5, A4_6))

CalculatorNames ==
    {"calc_A1_1", "calc_A1_2", "calc_A1_3", "calc_A1_4", "calc_A1_5", "calc_A2_1",
     "calc_A2_2", "calc_A2_3", "calc_A2_4", "calc_A2_5", "calc_A2_6", "calc_A3_1",
     "calc_A3_2", "calc_A3_3", "calc_A3_4", "calc_A3_5", "calc_A3_6", "calc_A3_7",
     "calc_A4_1", "calc_A4_2", "calc_A4_3", "calc_A4_5", "calc_A4_6", "calc_A4_4"}

NextCalc ==
    \/ Call_calc_A1_1
    \/ Call_calc_A1_2
    \/ Call_calc_A1_3
    \/ Call_calc_A1_4
    \/ Call_calc_A1_5
    \/ Call_calc_A2_1
    \/ Call_calc_A2_2
    \/ Call_calc_A2_3
    \/ Call_calc_A2_4
    \/ Call_calc_A2_5
    \/ Call_calc_A2_6
    \/ Call_calc_A3_1
    \/ Call_calc_A3_2
    \/ Call_calc_A3_3
    \/ Call_calc_A3_4
    \/ Call_calc_A3_5
    \/ Call_calc_A3_6
    \/ Call_calc_A3_7
    \/ Call_calc_A4_1
    \/ Call_calc_A4_2
    \/ Call_calc_A4_3
    \/ Call_calc_A4_5
    \/ Call_calc_A4_6
    \/ Call_calc_A4_4

SpecCalc == Init /\ [][NextCalc]_vars

\* ---------------------------------------------------------------- claims on the calculators
InRange(v) == v = None \/ (0 <= v /\ v <= Pts(100))

\* C1: every indicator calculator returns absent or a score in [0,100] on in-domain
\* answers and in-range prerequisite indicators; in particular calc_A1_5 with
\* a15_1 # 1, for all a15_2 in 1..4 and a12_3 in 1..3.
C1_CalculatorsInRange ==
    call.fn \in CalculatorNames => InRange(call.ret)

\* ---------------------------------------------------------------- claims on the results page
\* every stored answer is a value its widget can produce
InDomain(ans) == \A k \in DOMAIN ans \ {"program_id"} : ans[k] \in KeyDomain(k)

\* C2: for every configured program and every answer record with in-domain values,
\* the four attribute totals and the global score of the results page lie in [0,100].
C2_TotalsInRange ==
    (/\ report.status = "ok"
     /\ report.program_id \in ProgramIds
     /\ InDomain(answers))
    => /\ \A s \in Sections :
            0 <= report.section_scores[s] /\ report.section_scores[s] <= Pts(100)
       /\ 0 <= report.global_score /\ report.global_score <= Pts(100)

\* the raw answers the results page reads to compute an indicator
RequiredAnswers(ind_id) ==
    CASE ind_id = "A1.1" -> {"a11_1", "a11_2"}
      [] ind_id = "A1.2" -> {"a12_1", "a12_2_1", "a12_2_2", "a12_3"}
      [] ind_id = "A1.3" -> {"a12_1", "a13_1", "a12_2_1", "a12_2_2"}
      [] ind_id = "A1.4" -> {"a12_1", "a13_1", "a12_2_1", "a12_2_2", "a14_1"}
      [] ind_id = "A1.5" -> {"a12_3", "a15_1", "a15_2"}
      [] ind_id = "A2.1" -> {"a21_use_percent", "a21_2"} \cup ModalShareKeys
      [] ind_id = "A2.2" -> {"a22_1", "a22_2", "a22_3"}
      [] ind_id = "A2.3" -> {"a23_1"}
      [] ind_id = "A2.4" -> {"a24_1", "a24_2"}
      [] ind_id = "A2.5" -> {"a25_1", "a25_2", "a25_3"}
      [] ind_id = "A2.6" -> {"a26_1_p", "a26_2", "a26_2_1"}
      [] ind_id = "A3.1" -> {"a31_1", "a14_1"}
      [] ind_id = "A3.2" -> {"a32_1", "a32_2", "a14_1", "A0_3"}
      [] ind_id = "A3.3" -> {"a33_1", "a33_2"}
      [] ind_id = "A3.4" -> {"a34_1"}
      [] ind_id = "A3.5" -> {"a35_1"}
      [] ind_id = "A3.6" -> {"a36_1", "a36_2"}
      [] ind_id = "A3.7" -> {"a37_1"}
      [] ind_id = "A4.1" -> {"a41_1", "a41_before", "a41_after", "a41_2"}
      [] ind_id = "A4.2" -> {"a42_1"}
      [] ind_id = "A4.3" -> {"a43_1", "a43_2"}
      [] ind_id = "A4.4" ->
             {"A0_3", "a44_1", "a44_2", "a41_1", "a41_before", "a41_after", "a41_2", "a42_1",
              "a43_1", "a43_2", "a45_1", "a46_1", "a15_1", "a11_1", "a11_2"}
      [] ind_id = "A4.5" -> {"a45_1"}
      [] ind_id = "A4.6" -> {"a46_1", "a15_1", "a11_1", "a11_2"}

AllIndicatorIds == UNION {IndicatorIds(a) : a \in AttributeIds}

\* key absent from the record, or stored as None
Missing(ans, k) == get(ans, k) = None

\* C3: absence is never turned into a zero score: an indicator whose raw answers are
\* all missing from the record is absent in the report; in particular A4.5 when a45_1
\* is missing, and A4.1 when a41_1 = 1 and both counts are missing.
C3_AbsenceNeverZero ==
    report.status = "ok"
    => /\ \A ind_id \in AllIndicatorIds :
            (\A k \in RequiredAnswers(ind_id) : Missing(answers, k))
            => report.indicators[ind_id] = None
       /\ (/\ get(answers, "a41_1") = 1
           /\ Missing(answers, "a41_before")
           /\ Missing(answers, "a41_after"))
          => report.indicators["A4.1"] = None

\* C5: the score computation of the results page never raises: whatever the program id
\* and whichever recognized keys are missing, None or in-domain, a complete report
\* (24 indicators, four totals, global score) is produced.
C5_ReportAlwaysProduced ==
    report # NoReport
    => /\ report.status = "ok"
       /\ DOMAIN report.indicators = AllIndicatorIds
       /\ DOMAIN report.section_scores = Sections

\* ---------------------------------------------------------------- SpecWeights: the weighting layer
\* Each action is one call of a weighting function, or of the score computation of the
\* results page, under the table as the source file writes it.
WScores == {0, Pts(40), Pts(100)}

SubsetsUpTo(S, n) == {K \in SUBSET S : Cardinality(K) <= n}

\* indicator dicts of an attribute group: at most MaxInds keys, each absent or scored,
\* and all keys of the group with at most MaxInds of them scored
IndicatorDicts(attribute_id) ==
    LET ids == IndicatorIds(attribute_id)
        small == SubsetsUpTo(ids, MaxInds)
    IN  UNION {[K -> Opt(WScores)] : K \in small}
        \cup UNION {{[i \in ids |-> IF i \in K THEN f[i] ELSE None] : f \in [K -> WScores]} :
                    K \in small}

SectionScoreDicts == UNION {[K -> Opt(WScores)] : K \in SUBSET Sections}

\* answer records: the first-run record, with one key changed, or with one key removed
SampleAnswers ==
    {FirstRunAnswers}
    \cup UNION {{dict_set(FirstRunAnswers, k, v) : v \in KeyDomain(k)} : k \in AnswerKeys}
    \cup {dict_pop(FirstRunAnswers, k) : k \in DOMAIN FirstRunAnswers}

Call_get_indicator_weights ==
    /\ call = NoCall
    /\ \E program_id \in ProgramChoices, attribute_id \in AttributeIds :
          \E indicators \in IndicatorDicts(attribute_id) :
              Called("get_indicator_weights", <<program_id, attribute_id, indicators>>,
                     get_indicator_weights(program_id, attribute_id, indicators))

Call_get_section_weights ==
    /\ call = NoCall
    /\ \E program_id \in ProgramChoices :
          Called("get_section_weights", <<program_id>>, get_section_weights(program_id))

Call_compute_attribute_total ==
    /\ call = NoCall
    /\ \E program_id \in ProgramChoices, attribute_id \in AttributeIds :
          \E indicators \in IndicatorDicts(attribute_id) :
              Called("compute_attribute_total", <<program_id, attribute_id, indicators>>,
                     compute_attribute_total(program_id, attribute_id, indicators))

Call_compute_section_scores ==
    /\ call = NoCall
    /\ \E A1_total, A2_total, A3_total, A4_total \in WScores :
          Called("compute_section_scores", <<A1_total, A2_total, A3_total, A4_total>>,
                 compute_section_scores(A1_total, A2_total, A3_total, A4_total))

Call_compute_global_score ==
    /\ call = NoCall
    /\ \E program_id \in ProgramChoices, section_scores \in SectionScoreDicts :
          Called("compute_global_score", <<program_id, section_scores>>,
                 compute_global_score(program_id, section_scores))

Call_pagina_resultados ==
    /\ call = NoCall
    /\ \E program_id \in ProgramChoices, ans \in SampleAnswers :
          Called("pagina_resultados", <<program_id, ans>>,
                 pagina_resultados(dict_set(ans, "program_id", program_id)))

NextWeights ==
    \/ Call_get_indicator_weights
    \/ Call_get_section_weights
    \/ Call_compute_attribute_total
    \/ Call_compute_section_scores
    \/ Call_compute_global_score
    \/ Call_pagina_resultados

SpecWeights == Init /\ [][NextWeights]_vars

\* ---------------------------------------------------------------- claims on the weighting layer
\* the override the table holds for an indicator of a program, None when it holds none
ConfiguredOverride(program_id, attribute_id, ind_id) ==
    IF program_id \notin DOMAIN PROGRAM_CONFIG THEN None
    ELSE LET iw == PROGRAM_CONFIG[program_id].indicator_weights
         IN  IF attribute_id \notin DOMAIN iw THEN None
             ELSE IF ind_id \notin DOMAIN iw[attribute_id] THEN None
             ELSE iw[attribute_id][ind_id]

\* the weight an indicator carries: its override, else 1.0
ConfiguredWeight(program_id, attribute_id, ind_id) ==
    LET W == ConfiguredOverride(program_id, attribute_id, ind_id)
    IN  IF W = None THEN 100 ELSE W

Present(d) == {k \in DOMAIN d : d[k] # None}

SingleValue(d) == d[CHOOSE i \in Present(d) : TRUE]

\* the call is compute_attribute_total over a set with exactly one present indicator
SinglePresent ==
    /\ call.fn = "compute_attribute_total"
    /\ Cardinality(Present(call.args[3])) = 1

\* the override the table holds for that indicator, None when it holds none
SinglePresentOverride ==
    ConfiguredOverride(call.args[1], call.args[2], CHOOSE i \in Present(call.args[3]) : TRUE)

\* C4 as stated: over a set with exactly one present indicator of value V,
\* compute_attribute_total returns V for every program and every override W configured
\* for that indicator, the overrides W = 0.0 included.
C4_SinglePresentAnyOverride ==
    (SinglePresent /\ SinglePresentOverride # None)
    => call.ret = SingleValue(call.args[3])

\* C4 amended: over a set with exactly one present indicator of value V,
\* compute_attribute_total returns V for every configured override W > 0, and 0.0 for
\* the overrides W = 0.0.
C4_SinglePresentPositiveOverride ==
    /\ (SinglePresent /\ SinglePresentOverride > 0) => call.ret = SingleValue(call.args[3])
    /\ (SinglePresent /\ SinglePresentOverride = 0) => call.ret = 0

\* a single present indicator of positive value with an override other than 0 and 1.0,
\* among absent ones, returned as the total
C4_Witness ==
    /\ SinglePresent
    /\ SinglePresentOverride > 0
    /\ SinglePresentOverride # 100
    /\ Cardinality(DOMAIN call.args[3]) > 1
    /\ SingleValue(call.args[3]) > 0
    /\ call.ret = SingleValue(call.args[3])

UnknownProgram(program_id) == program_id \notin DOMAIN PROGRAM_CONFIG

\* C6: for a program id that is not a key of the table, get_indicator_weights returns
\* 1.0 for every indicator and get_section_weights the normalized common weights, so
\* attribute totals and global score equal those of program "OTRO" on the same
\* arguments and answers, and no error occurs.
C6_UnknownProgramAsOTRO ==
    (call # NoCall /\ call.fn # "compute_section_scores" /\ UnknownProgram(call.args[1]))
    => /\ call.fn = "get_indicator_weights"
          => call.ret = [i \in DOMAIN call.args[3] |-> 100]
       /\ call.fn = "get_section_weights"
          => call.ret = [s \in Sections |-> Frac(COMMON_SECTION_WEIGHTS[s], 100)]
       /\ call.fn = "compute_attribute_total"
          => call.ret = compute_attribute_total("OTRO", call.args[2], call.args[3])
       /\ call.fn = "compute_global_score"
          => call.ret = compute_global_score("OTRO", call.args[2])
       /\ call.fn = "pagina_resultados"
          => LET otro == pagina_resultados(dict_set(call.args[2], "program_id", "OTRO"))
             IN  /\ call.ret.status = "ok"
                 /\ call.ret.indicators = otro.indicators
                 /\ call.ret.section_scores = otro.section_scores
                 /\ call.ret.global_score = otro.global_score

\* the results page was computed for an id outside the table, on answers for which a
\* program with overrides ("FIESTA") gets another global score
C6_Witness ==
    /\ call.fn = "pagina_resultados"
    /\ call.args[1] = "NO_SUCH_PROGRAM"
    /\ call.ret.status = "ok"
    /\ call.ret.global_score > 0
    /\ call.ret.global_score
         # pagina_resultados(dict_set(call.args[2], "program_id", "FIESTA")).global_score

\* C7: compute_attribute_total returns exactly 0.0 when the indicator set is empty,
\* when every indicator in it is absent, or when every present indicator has weight 0,
\* for every program and attribute group.
C7_ZeroTotal ==
    (/\ call.fn = "compute_attribute_total"
     /\ \A i \in Present(call.args[3]) : ConfiguredWeight(call.args[1], call.args[2], i) = 0)
    => call.ret = 0

\* present indicators of positive value, all of weight 0, total 0.0
C7_Witness ==
    /\ call.fn = "compute_attribute_total"
    /\ Present(call.args[3]) # {}
    /\ \A i \in Present(call.args[3]) :
          /\ ConfiguredWeight(call.args[1], call.args[2], i) = 0
          /\ call.args[3][i] > 0
    /\ call.ret = 0

\* ---------------------------------------------------------------- SpecConfig: the table changed
\* The table is data of the source file. A behaviour here computes a value with the
\* weighting functions, changes the table (an indicator weight override, the section
\* weights of a program, or those weights all multiplied by a factor), and computes the
\* value again on the same arguments; call keeps both results.
IndicatorWeightValues == {0, 200}

SectionWeightValues == {0, 25, 75}

ScaleFactors == {2, 3}

\* the programs whose section weights are changed: every entry of the table holds the
\* same section weights and is looked up by id alone, so three ids stand for all
SectionEditPrograms == {"OTRO", "FIESTA", "SHE"}

\* all indicators of a group, at most MaxInds of them scored
ScoredIndicatorDicts(attribute_id) ==
    LET ids == IndicatorIds(attribute_id)
    IN  UNION {{[i \in ids |-> IF i \in K THEN f[i] ELSE None] : f \in [K -> WScores \ {0}]} :
               K \in SubsetsUpTo(ids, MaxInds)}

FullSectionScoreDicts == [Sections -> Opt(WScores \ {0})] \cup {EmptyDict}

LastEdit == config_edits[Len(config_edits)]

\* the program the functions are called for: the one whose entry was changed, else "OTRO"
ProgramInFocus == IF config_edits = <<>> THEN "OTRO" ELSE LastEdit.program

set_indicator_weight(program, attribute, indicator, weight) ==
    /\ config_edits = <<>>
    /\ IF call = NoCall THEN TRUE
       ELSE \/ call.fn = "pagina_resultados"
            \/ call.fn = "compute_attribute_total" /\ call.args[2] = attribute
    /\ config_edits' =
          <<[op |-> "set_indicator_weight", program |-> program, attribute |-> attribute,
             indicator |-> indicator, weight |-> weight]>>
    /\ UNCHANGED <<answers, report, steps, call, save_pending, saved_to_sheet,
                   sheet, env, widgets, force_reload, appended>>

set_section_weights(program, weights) ==
    /\ config_edits = <<>>
    /\ call = NoCall
    /\ config_edits' = <<[op |-> "set_section_weights", program |-> program, weights |-> weights]>>
    /\ UNCHANGED <<answers, report, steps, call, save_pending, saved_to_sheet,
                   sheet, env, widgets, force_reload, appended>>

scale_section_weights(program, factor) ==
    /\ program = ProgramInFocus
    /\ IF config_edits = <<>> THEN TRUE
       ELSE Len(config_edits) = 1 /\ LastEdit.op = "set_section_weights"
    /\ IF call = NoCall THEN TRUE
       ELSE call.fn \in {"get_section_weights", "compute_global_score"}
    /\ config_edits' =
          Append(config_edits,
                 [op |-> "scale_section_weights", program |-> program, factor |-> factor])
    /\ UNCHANGED <<answers, report, steps, call, save_pending, saved_to_sheet,
                   sheet, env, widgets, force_reload, appended>>

\* the value of a weighting function, or of the results page, under the table as it is
Compute(fn, args) ==
    CASE fn = "get_section_weights" -> get_section_weights(args[1])
      [] fn = "compute_global_score" -> compute_global_score(args[1], args[2])
      [] fn = "compute_attribute_total" -> compute_attribute_total(args[1], args[2], args[3])
      [] fn = "pagina_resultados" -> pagina_resultados(dict_set(args[2], "program_id", args[1]))

Computed(fn, args, value) ==
    /\ call' = [fn |-> fn, args |-> args, ret |-> value,
                again |-> FALSE, before |-> value, edits |-> Len(config_edits)]
    /\ UNCHANGED <<answers, report, steps, config_edits, save_pending, saved_to_sheet,
                   sheet, env, widgets, force_reload, appended>>

Config_get_section_weights ==
    /\ call = NoCall
    /\ IF config_edits = <<>> THEN TRUE ELSE LastEdit.op = "set_section_weights"
    /\ Computed("get_section_weights", <<ProgramInFocus>>, get_section_weights(ProgramInFocus))

Config_compute_global_score ==
    /\ call = NoCall
    /\ IF config_edits = <<>> THEN TRUE ELSE LastEdit.op = "set_section_weights"
    /\ \E section_scores \in FullSectionScoreDicts :
          Computed("compute_global_score", <<ProgramInFocus, section_scores>>,
                   compute_global_score(ProgramInFocus, section_scores))

Config_compute_attribute_total ==
    /\ call = NoCall
    /\ config_edits = <<>>
    /\ \E attribute_id \in AttributeIds :
          \E indicators \in ScoredIndicatorDicts(attribute_id) :
              Computed("compute_attribute_total", <<ProgramInFocus, attribute_id, indicators>>,
                       compute_attribute_total(ProgramInFocus, attribute_id, indicators))

Config_pagina_resultados ==
    /\ call = NoCall
    /\ config_edits = <<>>
    /\ Computed("pagina_resultados", <<ProgramInFocus, FirstRunAnswers>>,
                pagina_resultados(dict_set(FirstRunAnswers, "program_id", ProgramInFocus)))

\* the same call once more, after the table was changed
compute_again ==
    /\ call # NoCall
    /\ call.edits < Len(config_edits)
    /\ call' = [call EXCEPT !.ret = Compute(call.fn, call.args), !.again = TRUE,
                            !.before = call.ret, !.edits = Len(config_edits)]
    /\ UNCHANGED <<answers, report, steps, config_edits, save_pending, saved_to_sheet,
                   sheet, env, widgets, force_reload, appended>>

NextConfig ==
    \/ /\ config_edits = <<>>
       /\ \E program \in ProgramIds, attribute \in AttributeIds :
             \E indicator \in IndicatorIds(attribute), weight \in IndicatorWeightValues :
                 set_indicator_weight(program, attribute, indicator, weight)
    \/ /\ config_edits = <<>>
       /\ call = NoCall
       /\ \E program \in SectionEditPrograms, weights \in [Sections -> SectionWeightValues] :
             set_section_weights(program, weights)
    \/ /\ Len(config_edits) <= 1
       /\ \E factor \in ScaleFactors : scale_section_weights(ProgramInFocus, factor)
    \/ Config_get_section_weights
    \/ Config_compute_global_score
    \/ Config_compute_attribute_total
    \/ Config_pagina_resultados
    \/ compute_again

SpecConfig == Init /\ [][NextConfig]_vars

\* ---------------------------------------------------------------- claims on the changed table
\* the section weights the table holds for a program (the common ones for an unknown id)
ConfiguredSectionWeights(program_id) ==
    IF program_id \in DOMAIN PROGRAM_CONFIG THEN PROGRAM_CONFIG[program_id].section_weights
    ELSE COMMON_SECTION_WEIGHTS

\* the call was made, the table changed by an edit of kind op, and the call made again
Recomputed(op) ==
    /\ call # NoCall
    /\ call.again
    /\ LastEdit.op = op

\* C8: compute_global_score is invariant under multiplying all of a program's
\* configured section weights by the same positive constant: on any section scores the
\* result with weights w and with weights c*w is the same.
C8_ScaleInvariant ==
    (Recomputed("scale_section_weights") /\ call.fn = "compute_global_score")
    => call.ret = call.before

\* weights that are neither uniform nor of sum 1 were scaled, and the global score of
\* that program was computed before and after over two different section scores
C8_Witness ==
    /\ Recomputed("scale_section_weights")
    /\ call.fn = "compute_global_score"
    /\ call.args[1] = LastEdit.program
    /\ LET w == ConfiguredSectionWeights(LastEdit.program)
       IN  /\ w["Encuentro"] # w["Usos"]
           /\ w["Encuentro"] > 0
           /\ w["Usos"] > 0
    /\ DOMAIN call.args[2] = Sections
    /\ call.args[2]["Encuentro"] = Pts(40)
    /\ call.args[2]["Usos"] = Pts(100)
    /\ Pts(40) < call.ret /\ call.ret < Pts(100)

IsOne(x) == x[1] = x[2] /\ x[2] # 0

\* C9: get_section_weights returns weights that sum to 1 whenever the configured
\* section weights have a non-zero sum, and the configured weights unchanged when their
\* sum is 0; compute_global_score returns 0.0 when no section score is present or the
\* weight of the present sections is 0.
C9_NormalizedSectionWeights ==
    /\ call.fn = "get_section_weights"
       => LET configured == ConfiguredSectionWeights(call.args[1])
              total == DictSum(configured, DOMAIN configured)
          IN  /\ DOMAIN call.ret = DOMAIN configured
              /\ IF total # 0 THEN IsOne(FracSum(call.ret, DOMAIN call.ret))
                 ELSE call.ret = [k \in DOMAIN configured |-> Frac(configured[k], 100)]
    /\ call.fn = "compute_global_score"
       => LET configured == ConfiguredSectionWeights(call.args[1])
              present == Present(call.args[2])
          IN  DictSum([s \in present |-> configured[s]], present) = 0 => call.ret = 0

\* weights of non-zero sum other than 1 are configured, every present section score is
\* positive and carries weight 0, and the global score is 0.0
C9_Witness ==
    /\ call.fn = "compute_global_score"
    /\ LET configured == ConfiguredSectionWeights(call.args[1])
           present == Present(call.args[2])
       IN  /\ DictSum(configured, DOMAIN configured) \notin {0, 100}
           /\ present # {}
           /\ \A s \in present : configured[s] = 0 /\ call.args[2][s] > 0
    /\ call.ret = 0

\* C10: changing the indicator_weights of a program X other than "OTRO" leaves every
\* attribute total and the global score computed for "OTRO" unchanged, and so the
\* report of the results page on the same answers.
C10_OverrideIsolation ==
    (/\ Recomputed("set_indicator_weight")
     /\ LastEdit.program # "OTRO"
     /\ call.args[1] = "OTRO")
    => call.ret = call.before

\* an override of a program X other than "OTRO" was changed between two computations
\* of an attribute total of "OTRO", on indicators for which X gets another total
C10_Witness ==
    /\ Recomputed("set_indicator_weight")
    /\ LastEdit.program # "OTRO"
    /\ call.fn = "compute_attribute_total"
    /\ call.args[1] = "OTRO"
    /\ call.args[2] = LastEdit.attribute
    /\ call.args[3][LastEdit.indicator] # None
    /\ call.ret # compute_attribute_total(LastEdit.program, call.args[2], call.args[3])

\* ---------------------------------------------------------------- SpecMap: the mapping functions
\* Each action is one call of a mapping function on an ordinal code: a code of an
\* option list, 0, a negative code, a code above every option list, or None.
Codes == Opt(-1 .. MaxCode)

Call_score_1_3_100_50_10 ==
    /\ call = NoCall
    /\ \E x \in Codes : Called("score_1_3_100_50_10", <<x>>, score_1_3_100_50_10(x))

Call_score_1_3_10_50_100 ==
    /\ call = NoCall
    /\ \E x \in Codes : Called("score_1_3_10_50_100", <<x>>, score_1_3_10_50_100(x))

Call_score_1_4_100_75_50_25 ==
    /\ call = NoCall
    /\ \E x \in Codes : Called("score_1_4_100_75_50_25", <<x>>, score_1_4_100_75_50_25(x))

Call_score_1_4_100_60_20_10 ==
    /\ call = NoCall
    /\ \E x \in Codes : Called("score_1_4_100_60_20_10", <<x>>, score_1_4_100_60_20_10(x))

Call_score_A1_5_1 ==
    /\ call = NoCall
    /\ \E x \in Codes : Called("score_A1_5_1", <<x>>, score_A1_5_1(x))

Call_score_A1_2_1 ==
    /\ call = NoCall
    /\ \E x \in Codes : Called("score_A1_2_1", <<x>>, score_A1_2_1(x))

Call_score_A1_2_3 ==
    /\ call = NoCall
    /\ \E x \in Codes : Called("score_A1_2_3", <<x>>, score_A1_2_3(x))

Call_score_A4_3_1 ==
    /\ call = NoCall
    /\ \E x \in Codes : Called("score_A4_3_1", <<x>>, score_A4_3_1(x))

NextMap ==
    \/ Call_score_1_3_100_50_10
    \/ Call_score_1_3_10_50_100
    \/ Call_score_1_4_100_75_50_25
    \/ Call_score_1_4_100_60_20_10
    \/ Call_score_A1_5_1
    \/ Call_score_A1_2_1
    \/ Call_score_A1_2_3
    \/ Call_score_A4_3_1

SpecMap == Init /\ [][NextMap]_vars

\* ---------------------------------------------------------------- claims on the mapping functions
\* the lookup table of a mapping function: the score of code i is the i-th entry
MappingTable(fn) ==
    CASE fn = "score_1_3_100_50_10" -> <<100, 50, 10>>
      [] fn = "score_1_3_10_50_100" -> <<10, 50, 100>>
      [] fn = "score_1_4_100_75_50_25" -> <<100, 75, 50, 25>>
      [] fn = "score_1_4_100_60_20_10" -> <<100, 60, 20, 10>>
      [] fn = "score_A1_5_1" -> <<100, 10, 5>>
      [] fn = "score_A1_2_1" -> <<10, 50, 100>>
      [] fn = "score_A1_2_3" -> <<100, 1, 5>>
      [] fn = "score_A4_3_1" -> <<100, 75, 50, 1>>

MappingNames ==
    {"score_1_3_100_50_10", "score_1_3_10_50_100", "score_1_4_100_75_50_25",
     "score_1_4_100_60_20_10", "score_A1_5_1", "score_A1_2_1", "score_A1_2_3", "score_A4_3_1"}

\* C11: each mapping function returns its table value for every code in its declared
\* domain and absent for every other input: absent, 0, negative codes and codes above
\* the domain.
C11_MappingTables ==
    call.fn \in MappingNames
    => LET table == MappingTable(call.fn)
           x == call.args[1]
       IN  IF x \in DOMAIN table THEN call.ret = Pts(table[x]) ELSE call.ret = None

\* a four-point mapping was called on the first code above its option list
C11_Witness ==
    /\ call.fn \in MappingNames
    /\ call.args[1] = Len(MappingTable(call.fn)) + 1
    /\ Len(MappingTable(call.fn)) = 4
    /\ call.ret = None

\* ---------------------------------------------------------------- claims on absent indicators
\* C12: compute_attribute_total averages over the present indicators only: adding an
\* absent indicator of the group to the dict, or removing an absent one from it, leaves
\* the result as it was, whatever weight the table gives that indicator.
C12_AbsentIndicatorIgnored ==
    call.fn = "compute_attribute_total"
    => LET program_id == call.args[1]
           attribute_id == call.args[2]
           indicators == call.args[3]
       IN  /\ \A k \in IndicatorIds(attribute_id) \ DOMAIN indicators :
                 compute_attribute_total(program_id, attribute_id, dict_set(indicators, k, None))
                     = call.ret
           /\ \A k \in DOMAIN indicators :
                 indicators[k] = None
                 => compute_attribute_total(program_id, attribute_id, dict_pop(indicators, k))
                        = call.ret

\* a call with a present indicator and an absent one that the table gives an override
C12_Witness ==
    /\ call.fn = "compute_attribute_total"
    /\ call.ret > 0
    /\ \E k \in DOMAIN call.args[3] :
          /\ call.args[3][k] = None
          /\ ConfiguredOverride(call.args[1], call.args[2], k) \notin {None, 100}

\* ---------------------------------------------------------------- SpecIntangibles: the aggregators
\* Each action is one call of an intangible aggregator on indicator values, each absent
\* or a score.
Call_calc_intangibles_A1 ==
    /\ call = NoCall
    /\ \E A1_1, A1_2, A1_3, A1_4, A1_5 \in Opt(WScores) :
          Called("calc_intangibles_A1", <<A1_1, A1_2, A1_3, A1_4, A1_5>>,
                 calc_intangibles_A1(A1_1, A1_2, A1_3, A1_4, A1_5))

Call_calc_intangibles_A2 ==
    /\ call = NoCall
    /\ \E A2_1, A2_2, A2_3, A2_4, A2_5, A2_6, A3_4 \in Opt(WScores) :
          Called("calc_intangibles_A2", <<A2_1, A2_2, A2_3, A2_4, A2_5, A2_6, A3_4>>,
                 calc_intangibles_A2(A2_1, A2_2, A2_3, A2_4, A2_5, A2_6, A3_4))

Call_calc_intangibles_A3 ==
    /\ call = NoCall
    /\ \E A3_1, A3_2, A3_3, A3_4, A3_5, A3_6, A3_7 \in Opt(WScores) :
          Called("calc_intangibles_A3", <<A3_1, A3_2, A3_3, A3_4, A3_5, A3_6, A3_7>>,
                 calc_intangibles_A3(A3_1, A3_2, A3_3, A3_4, A3_5, A3_6, A3_7))

Call_calc_intangibles_A4 ==
    /\ call = NoCall
    /\ \E A4_1, A4_2, A4_3, A4_4, A4_5, A4_6 \in Opt(WScores) :
          Called("calc_intangibles_A4", <<A4_1, A4_2, A4_3, A4_4, A4_5, A4_6>>,
                 calc_intangibles_A4(A4_1, A4_2, A4_3, A4_4, A4_5, A4_6))

\* SECTOR_CONFIG of pagina_resultados; the labels are written as the keys of the
\* aggregators above are: without accents and line breaks
sector_names == <<"Usos y Actividades", "Comodidad e Imagen", "Conexiones y Accesos", "Encuentro">>

SECTOR_CONFIG ==
    [name \in {sector_names[i] : i \in 1..Len(sector_names)} |->
        CASE name = "Encuentro" ->
                 [middle_labels |-> <<"Diversidad", "Cuidado", "Comunidad", "Compartido",
                                      "Simbolos", "Orgullo", "Amigable", "Interactivo">>,
                  outer_labels |-> <<"A1.1", "A1.2", "A1.3", "A1.4", "A1.5">>]
          [] name = "Conexiones y Accesos" ->
                 [middle_labels |-> <<"Cercano", "Conectado", "Conveniente",
                                      "Accesible_movilidad_reducida",
                                      "Accesible_primera_infancia_y_cuidadores", "Transitable">>,
                  outer_labels |-> <<"A2.1", "A2.2", "A2.3", "A2.4", "A2.5", "A2.6">>]
          [] name = "Comodidad e Imagen" ->
                 [middle_labels |-> <<"Limpio", "Seguro", "Sentable", "Agradable", "Verde",
                                      "Caminable", "Resiliencia_climatica">>,
                  outer_labels |-> <<"A3.1", "A3.2", "A3.3", "A3.4", "A3.5", "A3.6", "A3.7">>]
          [] name = "Usos y Actividades" ->
                 [middle_labels |-> <<"Dinamico", "Especial", "Real", "Util", "Local",
                                      "Sostenible", "Conmemorativo", "Comunitario">>,
                  outer_labels |-> <<"A4.1", "A4.2", "A4.3", "A4.4", "A4.5", "A4.6">>]]

\* sector_scores: for every sector the values of its labels, looked up with
\* .get(name, {}).get(lbl, 0.0)
sector_scores(scores_middle, scores_outer) ==
    [name \in DOMAIN SECTOR_CONFIG |->
        LET mid_labels == SECTOR_CONFIG[name].middle_labels
            out_labels == SECTOR_CONFIG[name].outer_labels
        IN  [middle_pcts |-> [i \in DOMAIN mid_labels |->
                                 dict_get(dict_get(scores_middle, name, EmptyDict), mid_labels[i], 0)],
             outer_pcts |-> [i \in DOMAIN out_labels |->
                                dict_get(dict_get(scores_outer, name, EmptyDict), out_labels[i], 0)],
             middle_labels |-> mid_labels,
             outer_labels |-> out_labels]]

\* the wheel of the results page: every indicator has the value common, but for one
\* indicator that has the value other; the page aggregates the intangibles and looks
\* the labels of every sector up
Call_sector_scores ==
    /\ call = NoCall
    /\ \E common \in Opt(WScores), other \in Opt(WScores), changed \in UNION {IndicatorIds(a) : a \in AttributeIds} :
          LET ind == [id \in UNION {IndicatorIds(a) : a \in AttributeIds} |->
                         IF id = changed THEN other ELSE common]
              group(a) == [id \in IndicatorIds(a) |-> ind[id]]
              scores_middle ==
                  ("Usos y Actividades" :>
                       calc_intangibles_A4(ind["A4.1"], ind["A4.2"], ind["A4.3"], ind["A4.4"],
                                           ind["A4.5"], ind["A4.6"])
                   @@ "Comodidad e Imagen" :>
                       calc_intangibles_A3(ind["A3.1"], ind["A3.2"], ind["A3.3"], ind["A3.4"],
                                           ind["A3.5"], ind["A3.6"], ind["A3.7"])
                   @@ "Conexiones y Accesos" :>
                       calc_intangibles_A2(ind["A2.1"], ind["A2.2"], ind["A2.3"], ind["A2.4"],
                                           ind["A2.5"], ind["A2.6"], ind["A3.4"])
                   @@ "Encuentro" :>
                       calc_intangibles_A1(ind["A1.1"], ind["A1.2"], ind["A1.3"], ind["A1.4"],
                                           ind["A1.5"]))
              scores_outer ==
                  ("Usos y Actividades" :> group("A4") @@ "Comodidad e Imagen" :> group("A3")
                   @@ "Conexiones y Accesos" :> group("A2") @@ "Encuentro" :> group("A1"))
          IN  Called("sector_scores", <<scores_middle, scores_outer>>,
                     sector_scores(scores_middle, scores_outer))

NextIntangibles ==
    \/ Call_calc_intangibles_A1
    \/ Call_calc_intangibles_A2
    \/ Call_calc_intangibles_A3
    \/ Call_calc_intangibles_A4
    \/ Call_sector_scores

SpecIntangibles == Init /\ [][NextIntangibles]_vars

\* ---------------------------------------------------------------- claims on the intangibles
\* the aggregator named fn applied to a tuple of indicator values
Aggregate(fn, a) ==
    CASE fn = "calc_intangibles_A1" -> calc_intangibles_A1(a[1], a[2], a[3], a[4], a[5])
      [] fn = "calc_intangibles_A2" -> calc_intangibles_A2(a[1], a[2], a[3], a[4], a[5], a[6], a[7])
      [] fn = "calc_intangibles_A3" -> calc_intangibles_A3(a[1], a[2], a[3], a[4], a[5], a[6], a[7])
      [] fn = "calc_intangibles_A4" -> calc_intangibles_A4(a[1], a[2], a[3], a[4], a[5], a[6])

AggregatorNames ==
    {"calc_intangibles_A1", "calc_intangibles_A2", "calc_intangibles_A3", "calc_intangibles_A4"}

\* C13: each intangible aggregator counts an absent indicator as 0 (the result is the
\* one for the same values with every absent one replaced by 0, so nothing is skipped or
\* renormalized), and the coefficients of every intangible sum to 1.0: when all the
\* indicators equal v, every intangible equals v.
C13_IntangiblesAbsentAsZero ==
    call.fn \in AggregatorNames
    => /\ call.ret = Aggregate(call.fn, [i \in DOMAIN call.args |->
                                            IF call.args[i] = None THEN 0 ELSE call.args[i]])
       /\ \A k \in DOMAIN call.ret : call.ret[k] >= 0
       /\ \A v \in WScores :
             (\A i \in DOMAIN call.args : call.args[i] = v)
             => \A k \in DOMAIN call.ret : call.ret[k] = v

\* Local with A4.4 absent and A4.5 = A4.6 = 40 is 0.34*40 + 0.33*40 = 26.8, not 40
C13_Witness ==
    /\ call.fn = "calc_intangibles_A4"
    /\ call.args[4] = None
    /\ call.args[5] = Pts(40)
    /\ call.args[6] = Pts(40)
    /\ call.ret.Local = 26800

\* ---------------------------------------------------------------- claims on calc_A2_1
\* the modal shares of a call of calc_A2_1, in whole percents, absent ones as 0
SharePercents(args) == [i \in 1..4 |-> IF args[i] = None THEN 0 ELSE args[i] \div 1000]

SomeSharePositive(args) == \E i \in 1..4 : args[i] # None /\ args[i] > 0

C15_GrowthClamped ==
    (call.fn = "calc_A4_1" /\ call.args[1] = 1)
    => LET before == call.args[2]
           after == call.args[3]
       IN  /\ IF before = None \/ before = 0
              THEN call.ret = IF after # None /\ after > 0 THEN Pts(100) ELSE Pts(0)
              ELSE IF after = None THEN call.ret = Pts(0)
              ELSE IF after <= before THEN call.ret = Pts(0)
              ELSE IF after - before >= before THEN call.ret = Pts(100)
              ELSE call.ret = ((after - before) * Pts(100)) \div before
           /\ (before = 0 /\ after = 0) => call.ret = Pts(0)
           /\ (before = 0 /\ after = 50) => call.ret = Pts(100)
           /\ (before = 100 /\ after = 150) => call.ret = Pts(50)
           /\ (before = 100 /\ after = 50) => call.ret = Pts(0)

\* (100, 150): a growth strictly between the two clamps
C15_Witness ==
    /\ call.fn = "calc_A4_1"
    /\ call.args[1] = 1
    /\ call.args[2] = 100
    /\ call.args[3] = 150
    /\ call.ret = Pts(50)

\* ---------------------------------------------------------------- claims on calc_A1_1
\* C16: calc_A1_1 with both inputs present returns 0.85*a + 0.15*b when a >= b and
\* 0.60*a + 0.40*b when a < b, so (80, 60) gives 77 and (40, 90) gives 60; with a absent
\* it returns absent, and with only b absent it returns a.
C16_AsymmetricBlend ==
    call.fn = "calc_A1_1"
    => LET a == call.args[1]
           b == call.args[2]
       IN  /\ a = None => call.ret = None
           /\ (a # None /\ b = None) => call.ret = a
           /\ (a # None /\ b # None /\ a >= b) => 100 * call.ret = 85 * a + 15 * b
           /\ (a # None /\ b # None /\ a < b) => 100 * call.ret = 60 * a + 40 * b
           /\ (a = Pts(80) /\ b = Pts(60)) => call.ret = Pts(77)
           /\ (a = Pts(40) /\ b = Pts(90)) => call.ret = Pts(60)

\* (40, 90): the observed share below the reference takes the 0.60/0.40 blend
C16_Witness ==
    /\ call.fn = "calc_A1_1"
    /\ call.args = <<Pts(40), Pts(90)>>
    /\ call.ret = Pts(60)

\* ---------------------------------------------------------------- SpecSession: the results tab
SHEET_COLUMNS ==
    <<"nombre_lugar", "nombre_evaluador", "programa", "genero_id", "equipo_responsable_id",
      "A1.1", "A1.2", "A1.3", "A1.4", "A1.5", "A1_total",
      "A2.1", "A2.2", "A2.3", "A2.4", "A2.5", "A2.6", "A2_total",
      "A3.1", "A3.2", "A3.3", "A3.4", "A3.5", "A3.6", "A3.7", "A3_total",
      "A4.1", "A4.2", "A4.3", "A4.4", "A4.5", "A4.6", "A4_total",
      "global_score">>

\* str.strip() on the names the text inputs can hold
strip(name) == IF name = " Plaza " THEN "Plaza" ELSE name

\* Variant: the A2 total is stored under the key "A2_Total".
export_data_misspelt(ans, r) ==
    ("nombre_lugar" :> strip(dict_get(ans, "nombre_lugar", ""))
     @@ "nombre_evaluador" :> strip(dict_get(ans, "nombre_evaluador", ""))
     @@ "programa" :> r.program_id
     @@ "genero_id" :> get(ans, "A0_1")
     @@ "equipo_responsable_id" :> (LET v == dict_get(ans, "A0_3", 2) IN IF truthy(v) THEN v ELSE 2)
     @@ r.indicators
     @@ "A1_total" :> r.section_scores["Encuentro"]
     @@ "A2_Total" :> r.section_scores["Conexiones"]
     @@ "A3_total" :> r.section_scores["Comodidad"]
     @@ "A4_total" :> r.section_scores["Usos"]
     @@ "global_score" :> r.global_score)

\* the dict data of pagina_resultados, from the answers and what the page computed
export_data(ans, r) ==
    ("nombre_lugar" :> strip(dict_get(ans, "nombre_lugar", ""))
     @@ "nombre_evaluador" :> strip(dict_get(ans, "nombre_evaluador", ""))
     @@ "programa" :> r.program_id
     @@ "genero_id" :> get(ans, "A0_1")
     @@ "equipo_responsable_id" :> (LET v == dict_get(ans, "A0_3", 2) IN IF truthy(v) THEN v ELSE 2)
     @@ r.indicators
     @@ "A1_total" :> r.section_scores["Encuentro"]
     @@ "A2_total" :> r.section_scores["Conexiones"]
     @@ "A3_total" :> r.section_scores["Comodidad"]
     @@ "A4_total" :> r.section_scores["Usos"]
     @@ "global_score" :> r.global_score)

\* the row append_to_google_sheet hands to worksheet.append_row
append_to_google_sheet(row_data) ==
    [i \in 1..Len(SHEET_COLUMNS) |-> dict_get(row_data, SHEET_COLUMNS[i], "")]

\* Variant: the page stores the defaults it reads the program and the team with.
session_answers_after_setdefault(ans) ==
    dict_set(dict_set(ans, "program_id", dict_get(ans, "program_id", "OTRO")),
             "A0_3", dict_get(ans, "A0_3", 2))

\* ans = st.session_state["answers"] is the session's own dict; pagina_resultados reads
\* it with ans.get and never assigns to it, so the dict it leaves is the dict it found
session_answers_after(ans) == ans

\* the tab loop: the five pages store what their widgets hold
render_sections ==
    /\ answers = EmptyDict
    /\ call = NoCall
    /\ \E ans \in SampleAnswers, program_id \in {"OTRO", "FIESTA", ""},
          nombre_lugar \in {"", "Plaza", " Plaza "} :
          answers' = ans @@ ("program_id" :> program_id) @@ ("nombre_lugar" :> nombre_lugar)
    /\ UNCHANGED <<report, steps, config_edits, call, save_pending, saved_to_sheet,
                   sheet, env, widgets, force_reload, appended>>

\* on_click of the button "Guardar resultados en Google Sheets"
trigger_save_to_sheet ==
    /\ answers # EmptyDict
    /\ ~force_reload
    /\ ~save_pending
    /\ save_pending' = TRUE
    /\ UNCHANGED <<answers, report, steps, config_edits, call, saved_to_sheet,
                   sheet, env, widgets, force_reload, appended>>

\* The last tab, after the pages have stored their widgets' values:
\* pagina_resultados computes the scores, builds data and runs the save
\* logic. append_to_google_sheet appends the row and returns (True, "OK"), returns
\* (False, msg) when the sheet is not configured, or raises (gspread).
results_tab ==
    LET r == pagina_resultados(answers)
        ran(ret, sink) == [fn |-> "pagina_resultados",
                           args |-> <<answers, save_pending, saved_to_sheet>>,
                           ret |-> ret, sink |-> sink]
    IN  /\ answers # EmptyDict
        /\ report' = r
        /\ answers' = session_answers_after(answers)
        /\ UNCHANGED <<steps, config_edits, env, widgets, force_reload>>
        /\ IF r.status = "raised"
           THEN /\ call' = ran("raised", <<>>)
                /\ UNCHANGED <<save_pending, saved_to_sheet, sheet, env, appended>>
           ELSE IF save_pending /\ ~saved_to_sheet
           THEN \E outcome \in {"ok", "failed", "sink raised"} :
                   /\ call' = ran(outcome, <<export_data(answers, r)>>)
                   /\ sheet' = IF outcome = "ok"
                               THEN Append(sheet, append_to_google_sheet(export_data(answers, r)))
                               ELSE sheet
                   /\ appended' = IF outcome = "ok" THEN appended + 1 ELSE appended
                   /\ saved_to_sheet' = (outcome = "ok")
                   /\ save_pending' = (outcome = "sink raised")
           ELSE /\ call' = ran("no save", <<>>)
                /\ save_pending' = FALSE
                /\ UNCHANGED <<saved_to_sheet, sheet, env, appended>>

NextSession ==
    \/ render_sections
    \/ trigger_save_to_sheet
    \/ results_tab

SpecSession == Init /\ [][NextSession]_vars

\* ---------------------------------------------------------------- claims on the results tab
\* C17: computing the scores on the results page leaves the answer record unchanged:
\* after a run of the page, whatever the save flags were and whether or not it raised,
\* the answers are the ones the page found, key for key.
C17_AnswersUnchanged ==
    call.fn = "pagina_resultados"
    => /\ DOMAIN answers = DOMAIN call.args[1]
       /\ \A k \in DOMAIN answers : answers[k] = call.args[1][k]

\* a run of the page that saved a row, on answers without the team key A0_3
C17_Witness ==
    /\ call.fn = "pagina_resultados"
    /\ call.args[2]
    /\ call.ret = "ok"
    /\ "A0_3" \notin DOMAIN answers
    /\ report.status = "ok"

\* position of a column in SHEET_COLUMNS
ColumnIndex(col) == CHOOSE i \in 1..Len(SHEET_COLUMNS) : SHEET_COLUMNS[i] = col

\* C18: the record handed to the result sink has exactly the keys of SHEET_COLUMNS, the
\* appended row lists their values in SHEET_COLUMNS order (the indicators of A1, A1_total,
\* those of A2, A2_total, those of A3, A3_total, those of A4, A4_total, global_score last),
\* and every computed indicator and total is exported.
C18_ExportedRecord ==
    (call.fn = "pagina_resultados" /\ call.sink # <<>>)
    => LET data == call.sink[1]
           total(a) == a \o "_total"
       IN  /\ DOMAIN data = {SHEET_COLUMNS[i] : i \in 1..Len(SHEET_COLUMNS)}
           /\ Cardinality(DOMAIN data) = Len(SHEET_COLUMNS)
           /\ call.ret = "ok"
              => /\ sheet # <<>>
                 /\ Len(sheet[Len(sheet)]) = Len(SHEET_COLUMNS)
                 /\ \A i \in 1..Len(SHEET_COLUMNS) :
                       sheet[Len(sheet)][i] = data[SHEET_COLUMNS[i]]
           /\ \A id \in AllIndicatorIds : data[id] = report.indicators[id]
           /\ data["A1_total"] = report.section_scores["Encuentro"]
           /\ data["A2_total"] = report.section_scores["Conexiones"]
           /\ data["A3_total"] = report.section_scores["Comodidad"]
           /\ data["A4_total"] = report.section_scores["Usos"]
           /\ data["global_score"] = report.global_score
           /\ \A a \in AttributeIds : \A id \in IndicatorIds(a) :
                 /\ ColumnIndex(id) < ColumnIndex(total(a))
                 /\ \A b \in AttributeIds :
                       ColumnIndex(total(b)) < ColumnIndex(total(a))
                       => ColumnIndex(total(b)) < ColumnIndex(id)
           /\ ColumnIndex("A1_total") < ColumnIndex("A2_total")
           /\ ColumnIndex("A2_total") < ColumnIndex("A3_total")
           /\ ColumnIndex("A3_total") < ColumnIndex("A4_total")
           /\ ColumnIndex("global_score") = Len(SHEET_COLUMNS)

\* a row was appended for a place whose name the page stripped
C18_Witness ==
    /\ call.fn = "pagina_resultados"
    /\ call.ret = "ok"
    /\ Len(sheet) = 1
    /\ answers["nombre_lugar"] = " Plaza "
    /\ sheet[1][1] = "Plaza"
    /\ sheet[1][Len(SHEET_COLUMNS)] = report.global_score

\* ---------------------------------------------------------------- SpecOrder: the statements of the page
\* The assignments of the score computation of pagina_resultados in source order, each
\* with the locals its right-hand side reads. The raw answers (a11_1, a12_1, ...) are
\* read from ans just before the calculators of their group and are counted under ans;
\* the dict A1_indicators .. A4_indicators is counted under its indicators.
\* Variant: the A4 indicators are computed in the order of their numbers.
ResultsStatements_numbered ==
    <<[target |-> "ans", reads |-> {}],
      [target |-> "program_id", reads |-> {"ans"}],
      [target |-> "A0_3", reads |-> {"ans"}],
      [target |-> "A1.1", reads |-> {"ans"}],
      [target |-> "A1.2", reads |-> {"ans"}],
      [target |-> "A1.3", reads |-> {"ans"}],
      [target |-> "A1.4", reads |-> {"ans", "A1.3"}],
      [target |-> "A1.5", reads |-> {"ans"}],
      [target |-> "A3.1", reads |-> {"ans"}],
      [target |-> "A3.2", reads |-> {"ans", "A0_3"}],
      [target |-> "A3.3", reads |-> {"ans"}],
      [target |-> "A3.4", reads |-> {"ans"}],
      [target |-> "A3.5", reads |-> {"ans"}],
      [target |-> "A3.6", reads |-> {"ans"}],
      [target |-> "A3.7", reads |-> {"ans"}],
      [target |-> "A2.1", reads |-> {"ans"}],
      [target |-> "A2.2", reads |-> {"ans"}],
      [target |-> "A2.3", reads |-> {"ans"}],
      [target |-> "A2.4", reads |-> {"ans"}],
      [target |-> "A2.5", reads |-> {"ans"}],
      [target |-> "A2.6", reads |-> {"ans"}],
      [target |-> "A4.1", reads |-> {"ans"}],
      [target |-> "A4.2", reads |-> {"ans"}],
      [target |-> "A4.3", reads |-> {"ans"}],
      [target |-> "A4.4", reads |-> {"ans", "A0_3", "A4.1", "A4.2", "A4.3", "A4.5", "A4.6"}],
      [target |-> "A4.5", reads |-> {"ans"}],
      [target |-> "S461", reads |-> {"ans"}],
      [target |-> "S462", reads |-> {"ans"}],
      [target |-> "A4.6", reads |-> {"S461", "S462", "A1.1"}],
      [target |-> "intangibles_A1", reads |-> IndicatorIds("A1")],
      [target |-> "intangibles_A2", reads |-> IndicatorIds("A2") \cup {"A3.4"}],
      [target |-> "intangibles_A3", reads |-> IndicatorIds("A3")],
      [target |-> "intangibles_A4", reads |-> IndicatorIds("A4")],
      [target |-> "A1_total", reads |-> {"program_id"} \cup IndicatorIds("A1")],
      [target |-> "A2_total", reads |-> {"program_id"} \cup IndicatorIds("A2")],
      [target |-> "A3_total", reads |-> {"program_id"} \cup IndicatorIds("A3")],
      [target |-> "A4_total", reads |-> {"program_id"} \cup IndicatorIds("A4")],
      [target |-> "section_scores", reads |-> {"A1_total", "A2_total", "A3_total", "A4_total"}],
      [target |-> "global_score", reads |-> {"program_id", "section_scores"}]>>

ResultsStatements ==
    <<[target |-> "ans", reads |-> {}],
      [target |-> "program_id", reads |-> {"ans"}],
      [target |-> "A0_3", reads |-> {"ans"}],
      [target |-> "A1.1", reads |-> {"ans"}],
      [target |-> "A1.2", reads |-> {"ans"}],
      [target |-> "A1.3", reads |-> {"ans"}],
      [target |-> "A1.4", reads |-> {"ans", "A1.3"}],
      [target |-> "A1.5", reads |-> {"ans"}],
      [target |-> "A3.1", reads |-> {"ans"}],
      [target |-> "A3.2", reads |-> {"ans", "A0_3"}],
      [target |-> "A3.3", reads |-> {"ans"}],
      [target |-> "A3.4", reads |-> {"ans"}],
      [target |-> "A3.5", reads |-> {"ans"}],
      [target |-> "A3.6", reads |-> {"ans"}],
      [target |-> "A3.7", reads |-> {"ans"}],
      [target |-> "A2.1", reads |-> {"ans"}],
      [target |-> "A2.2", reads |-> {"ans"}],
      [target |-> "A2.3", reads |-> {"ans"}],
      [target |-> "A2.4", reads |-> {"ans"}],
      [target |-> "A2.5", reads |-> {"ans"}],
      [target |-> "A2.6", reads |-> {"ans"}],
      [target |-> "A4.1", reads |-> {"ans"}],
      [target |-> "A4.2", reads |-> {"ans"}],
      [target |-> "A4.3", reads |-> {"ans"}],
      [target |-> "A4.5", reads |-> {"ans"}],
      [target |-> "S461", reads |-> {"ans"}],
      [target |-> "S462", reads |-> {"ans"}],
      [target |-> "A4.6", reads |-> {"S461", "S462", "A1.1"}],
      [target |-> "A4.4", reads |-> {"ans", "A0_3", "A4.1", "A4.2", "A4.3", "A4.5", "A4.6"}],
      [target |-> "intangibles_A1", reads |-> IndicatorIds("A1")],
      [target |-> "intangibles_A2", reads |-> IndicatorIds("A2") \cup {"A3.4"}],
      [target |-> "intangibles_A3", reads |-> IndicatorIds("A3")],
      [target |-> "intangibles_A4", reads |-> IndicatorIds("A4")],
      [target |-> "A1_total", reads |-> {"program_id"} \cup IndicatorIds("A1")],
      [target |-> "A2_total", reads |-> {"program_id"} \cup IndicatorIds("A2")],
      [target |-> "A3_total", reads |-> {"program_id"} \cup IndicatorIds("A3")],
      [target |-> "A4_total", reads |-> {"program_id"} \cup IndicatorIds("A4")],
      [target |-> "section_scores", reads |-> {"A1_total", "A2_total", "A3_total", "A4_total"}],
      [target |-> "global_score", reads |-> {"program_id", "section_scores"}]>>

\* the value the right-hand side of the assignment to target gives under the locals e
statement_value(target, e) ==
    LET ans == e["ans"]
        ind(attribute_id) == [i \in IndicatorIds(attribute_id) |-> e[i]]
    IN  CASE target = "program_id" ->
                 IF "program_id" \in DOMAIN ans /\ ans["program_id"] # "" THEN ans["program_id"]
                 ELSE "OTRO"
          [] target = "A0_3" -> (LET v == dict_get(ans, "A0_3", 2) IN IF truthy(v) THEN v ELSE 2)
          [] target = "A1.4" -> calc_A1_4(e["A1.3"], get(ans, "a14_1"))
          [] target = "S461" -> score_1_3_100_50_10(get(ans, "a46_1"))
          [] target = "S462" -> score_A1_5_1(get(ans, "a15_1"))
          [] target = "A4.6" -> calc_A4_6(e["S461"], e["S462"], e["A1.1"])
          [] target = "A4.4" ->
                 calc_A4_4(e["A0_3"], get(ans, "a44_1"), get(ans, "a44_2"),
                           e["A4.1"], e["A4.2"], e["A4.3"], e["A4.5"], e["A4.6"])
          [] target = "intangibles_A1" ->
                 calc_intangibles_A1(e["A1.1"], e["A1.2"], e["A1.3"], e["A1.4"], e["A1.5"])
          [] target = "intangibles_A2" ->
                 calc_intangibles_A2(e["A2.1"], e["A2.2"], e["A2.3"], e["A2.4"], e["A2.5"],
                                     e["A2.6"], e["A3.4"])
          [] target = "intangibles_A3" ->
                 calc_intangibles_A3(e["A3.1"], e["A3.2"], e["A3.3"], e["A3.4"], e["A3.5"],
                                     e["A3.6"], e["A3.7"])
          [] target = "intangibles_A4" ->
                 calc_intangibles_A4(e["A4.1"], e["A4.2"], e["A4.3"], e["A4.4"], e["A4.5"],
                                     e["A4.6"])
          [] target = "A1_total" -> compute_attribute_total(e["program_id"], "A1", ind("A1"))
          [] target = "A2_total" -> compute_attribute_total(e["program_id"], "A2", ind("A2"))
          [] target = "A3_total" -> compute_attribute_total(e["program_id"], "A3", ind("A3"))
          [] target = "A4_total" -> compute_attribute_total(e["program_id"], "A4", ind("A4"))
          [] target = "section_scores" ->
                 compute_section_scores(e["A1_total"], e["A2_total"], e["A3_total"], e["A4_total"])
          [] target = "global_score" -> compute_global_score(e["program_id"], e["section_scores"])
          \* an indicator computed from the answers alone
          [] OTHER -> pagina_resultados(ans).indicators[target]

\* The next assignment of the run under way. The first one binds ans to the session's
\* answers. A right-hand side that reads a local not yet assigned raises
\* UnboundLocalError; float() of a None modal share, just before A2.1, raises TypeError.
run_statement ==
    /\ answers # EmptyDict
    /\ "raised" \notin DOMAIN env
    /\ Cardinality(DOMAIN env) < Len(ResultsStatements)
    /\ LET st == ResultsStatements[Cardinality(DOMAIN env) + 1]
       IN  env' = IF st.target = "ans" THEN dict_set(env, "ans", answers)
                  ELSE IF ~(st.reads \subseteq DOMAIN env)
                  THEN dict_set(env, "raised", "UnboundLocalError")
                  ELSE IF st.target = "A2.1" /\ pagina_resultados(env["ans"]).status = "raised"
                  THEN dict_set(env, "raised", "TypeError")
                  ELSE dict_set(env, st.target, statement_value(st.target, env))
    /\ UNCHANGED <<answers, report, steps, config_edits, call, save_pending,
                   saved_to_sheet, sheet, widgets, force_reload, appended>>

NextOrder ==
    \/ render_sections
    \/ run_statement

SpecOrder == Init /\ [][NextOrder]_vars

\* ---------------------------------------------------------------- claims on the order of computation
\* C20: in the results-page computation every value is computed before it is read: no
\* assignment reads an unassigned local; A1.3 is there before A1.4, A1.1 before A4.6,
\* A3.4 before the A2 intangibles, A4.1, A4.2, A4.3, A4.5 and A4.6 before A4.4, all
\* indicators before the intangibles and the attribute totals, the four totals before
\* the global score; and every statement reads only targets of earlier statements, so
\* the dependency relation is acyclic.
C20_ComputedBeforeRead ==
    LET done == DOMAIN env
        before(first, then) == then \in done => first \subseteq done
        aggregates == {"intangibles_A1", "intangibles_A2", "intangibles_A3", "intangibles_A4",
                       "A1_total", "A2_total", "A3_total", "A4_total"}
    IN  /\ dict_get(env, "raised", "") # "UnboundLocalError"
        /\ before({"A1.3"}, "A1.4")
        /\ before({"A1.1"}, "A4.6")
        /\ before({"A3.4"}, "intangibles_A2")
        /\ before({"A4.1", "A4.2", "A4.3", "A4.5", "A4.6"}, "A4.4")
        /\ \A x \in aggregates : before(AllIndicatorIds, x)
        /\ before({"A1_total", "A2_total", "A3_total", "A4_total"}, "global_score")
        /\ \A i \in 1..Len(ResultsStatements) :
              \A x \in ResultsStatements[i].reads :
                 \E j \in 1..(i - 1) : ResultsStatements[j].target = x

\* a run of the page that reached the global score
C20_Witness ==
    /\ "global_score" \in DOMAIN env
    /\ "A4.4" \in DOMAIN env
    /\ env["global_score"] = pagina_resultados(env["ans"]).global_score

\* ---------------------------------------------------------------- claims on single calculators
\* the score of an answer under a mapping table, absent outside the table
Mapped(fn, x) ==
    LET table == MappingTable(fn) IN IF x \in DOMAIN table THEN Pts(table[x]) ELSE None

\* the places of the indicators A4.1, A4.2, A4.3, A4.5, A4.6 in the arguments of calc_A4_4
PresentOthers(args) == {i \in 4..8 : args[i] # None}

\* C22: calc_A4_4 with A0_3 = 1 returns 0.4*S(a44_1) + 0.6*S(a44_2), absent if either
\* mapped answer is absent; with A0_3 # 1 it returns the mean of the present values
\* among A4.1, A4.2, A4.3, A4.5, A4.6 and absent only when all five are absent.
C22_ProgrammingOrMean ==
    call.fn = "calc_A4_4"
    => LET args == call.args
           S441 == Mapped("score_1_3_100_50_10", args[2])
           S442 == Mapped("score_1_3_100_50_10", args[3])
           present == PresentOthers(args)
           n == Cardinality(present)
           total == DictSum(args, present)
       IN  IF args[1] = 1
           THEN IF S441 = None \/ S442 = None THEN call.ret = None
                ELSE call.ret = (4 * S441 + 6 * S442) \div 10
           ELSE IF present = {} THEN call.ret = None
                ELSE /\ call.ret # None
                     /\ n * call.ret <= total
                     /\ total < n * (call.ret + 1)

\* without the programming answers, two of the five indicators are present (100 and
\* 50) and three absent: the mean is 75, not 30
C22_Witness ==
    /\ call.fn = "calc_A4_4"
    /\ call.args[1] # 1
    /\ Cardinality(PresentOthers(call.args)) = 2
    /\ DictSum(call.args, PresentOthers(call.args)) = Pts(150)
    /\ call.ret = Pts(75)

\* C23: calc_A1_3 with a12_1 = 1 returns 0.7 times the four-point score of a12_2_2,
\* and with a12_1 # 1 the undiscounted four-point score of a13_1; calc_A3_2 with
\* A0_3 # 1 returns the undiscounted four-point score of a14_1, whatever a32_1 and
\* a32_2 are.
C23_PhysicalConditionProxy ==
    /\ call.fn = "calc_A1_3"
       => LET base == Mapped("score_1_4_100_75_50_25", call.args[4])
          IN  IF call.args[1] = 1
              THEN call.ret = (IF base = None THEN None ELSE (7 * base) \div 10)
              ELSE call.ret = Mapped("score_1_4_100_75_50_25", call.args[2])
    /\ (call.fn = "calc_A3_2" /\ call.args[4] # 1)
       => call.ret = Mapped("score_1_4_100_75_50_25", call.args[3])

\* no organized groups, physical state 2 of 4 while a13_1 says 1: 0.7 * 75 = 52.5
C23_Witness ==
    /\ call.fn = "calc_A1_3"
    /\ call.args[1] = 1
    /\ call.args[2] = 1
    /\ call.args[4] = 2
    /\ call.ret = 52500

\* C24: calc_A4_5 returns 10 * min(10, max(0, n)) for every present integer count n,
\* so 0 below 0 and 100 above 10, and absent only when n is absent.
C24_ActivitiesClamped ==
    call.fn = "calc_A4_5"
    => LET n == call.args[1]
       IN  IF n = None THEN call.ret = None
           ELSE IF n < 0 THEN call.ret = 0
           ELSE IF n > 10 THEN call.ret = Pts(100)
           ELSE call.ret = Pts(10 * n)

\* a count above 10 scored 100
C24_Witness ==
    /\ call.fn = "calc_A4_5"
    /\ call.args[1] = 12
    /\ call.ret = Pts(100)

\* ---------------------------------------------------------------- claims on the modal shares of the page
\* the answers say "by percentages" and hold no positive share
ZeroShares(ans) ==
    /\ get(ans, "a21_use_percent") = 1
    /\ \A k \in ModalShareKeys : dict_get(ans, k, 0) = 0

\* C30: when a21_use_percent = 1 and all four modal shares are 0, the results page
\* computes A2.1 as absent, whatever primary mode a21_2 the answers hold, and the
\* Conexiones total is the total of the other A2 indicators: A2.1 is left out of it,
\* not scored.
C30_ZeroSharesAbsent ==
    (call.fn = "pagina_resultados" /\ report.status = "ok" /\ ZeroShares(answers))
    => /\ report.indicators["A2.1"] = None
       /\ report.section_scores["Conexiones"] =
             compute_attribute_total(report.program_id, "A2",
                                     [i \in IndicatorIds("A2") \ {"A2.1"} |-> report.indicators[i]])

\* the page ran on answers that hold a primary mode (public transport, worth 90 on its
\* own) next to four shares of 0, and FIESTA, which weighs A2.1 with 0.7
C30_Witness ==
    /\ call.fn = "pagina_resultados"
    /\ report.status = "ok"
    /\ ZeroShares(answers)
    /\ \A k \in ModalShareKeys : k \in DOMAIN answers
    /\ get(answers, "a21_2") = 3
    /\ report.program_id = "FIESTA"
    /\ report.indicators["A2.1"] = None
    /\ report.section_scores["Conexiones"] > 0

\* ---------------------------------------------------------------- claims on the labels of the wheel
\* C29: every label of middle_labels of a sector of SECTOR_CONFIG is a key of the dict
\* that sector's intangible aggregator returns, so that no displayed intangible is read
\* as the 0.0 default of the lookup, and every label of outer_labels is a key of that
\* sector's indicator dict.
C29_LabelsAreKeys ==
    call.fn = "sector_scores"
    => \A name \in DOMAIN SECTOR_CONFIG :
          LET mid_labels == SECTOR_CONFIG[name].middle_labels
              out_labels == SECTOR_CONFIG[name].outer_labels
          IN  /\ \A i \in DOMAIN mid_labels :
                    /\ mid_labels[i] \in DOMAIN call.args[1][name]
                    /\ call.ret[name].middle_pcts[i] = call.args[1][name][mid_labels[i]]
              /\ \A i \in DOMAIN out_labels :
                    /\ out_labels[i] \in DOMAIN call.args[2][name]
                    /\ call.ret[name].outer_pcts[i] = call.args[2][name][out_labels[i]]

\* ---------------------------------------------------------------- SpecPages: the pages Encuentro and Conexiones
\* A page works on the session: the answers and the state of the widgets. A widget with
\* a key returns the value the session holds under that key (what the user chose), or
\* else its default, and the session then holds what it returned. ss is the record
\* [answers, widgets]; every operator below returns the session it leaves.
widget_answer(ss, key, default) ==
    LET val == IF key \in DOMAIN ss.widgets THEN ss.widgets[key] ELSE default
    IN  [answers |-> (key :> val) @@ ss.answers, widgets |-> (key :> val) @@ ss.widgets]

\* idx = options.index(prev) if prev in options else 0
radio_answer(ss, key, options) ==
    LET prev == get(ss.answers, key)
        idx == IF \E i \in DOMAIN options : options[i] = prev
               THEN CHOOSE i \in DOMAIN options : options[i] = prev
               ELSE 1
    IN  widget_answer(ss, key, options[idx])

checkbox_answer(ss, key) == widget_answer(ss, key, dict_get(ss.answers, key, 0))

slider_answer(ss, key, min_value) == widget_answer(ss, key, dict_get(ss.answers, key, min_value))

number_answer(ss, key, min_value) == widget_answer(ss, key, dict_get(ss.answers, key, min_value))

\* set_ans(key, value) inside a page
store_ans(ss, key, value) == [ss EXCEPT !.answers = (key :> value) @@ @]

\* Variant: only the widget state is cleared, the stored answers stay.
clear_branch_widget_state_only(ss, base_keys) ==
    [ss EXCEPT !.widgets = [k \in (DOMAIN @) \ base_keys |-> @[k]]]

\* _clear_answer(*base_keys) and _clear_widget_state(*base_keys)
clear_branch(ss, base_keys) ==
    [answers |-> [k \in (DOMAIN ss.answers) \ base_keys |-> ss.answers[k]],
     widgets |-> [k \in (DOMAIN ss.widgets) \ base_keys |-> ss.widgets[k]]]

\* The widgets ws rendered one after the other. Their keys differ and none reads what
\* another stored, so each holds what it would hold rendered alone on ss.
render_widgets(ss, ws) ==
    LET rendered(w) == IF w.kind = "radio" THEN radio_answer(ss, w.key, w.options)
                       ELSE IF w.kind = "checkbox" THEN checkbox_answer(ss, w.key)
                       ELSE IF w.kind = "slider" THEN slider_answer(ss, w.key, w.options[1])
                       ELSE number_answer(ss, w.key, w.options[1])
        held == [key \in {ws[i].key : i \in DOMAIN ws} |->
                    LET w == ws[CHOOSE i \in DOMAIN ws : ws[i].key = key]
                    IN  rendered(w).answers[key]]
    IN  [answers |-> held @@ ss.answers, widgets |-> held @@ ss.widgets]

\* pagina_A1, "Diversidad demografica"
pagina_A1_diversidad(ss) ==
    render_widgets(ss, <<[kind |-> "slider", key |-> "a11_1", options |-> <<0>>],
                         [kind |-> "checkbox", key |-> "a11_1_na", options |-> <<0>>],
                         [kind |-> "number", key |-> "a11_2", options |-> <<0>>],
                         [kind |-> "checkbox", key |-> "a11_2_na", options |-> <<0>>]>>)

\* pagina_A1, "Redes ciudadanas": after the radio a12_1, the question of its branch
pagina_A1_redes_branch(ss) ==
    IF ss.answers["a12_1"] = 1
    THEN radio_answer(clear_branch(ss, {"a12_2_1"}), "a12_2_2", <<1, 2, 3, 4>>)
    ELSE radio_answer(clear_branch(ss, {"a12_2_2"}), "a12_2_1", <<1, 2, 3>>)

pagina_A1_redes(ss) ==
    radio_answer(pagina_A1_redes_branch(radio_answer(ss, "a12_1", <<1, 2, 3>>)),
                 "a12_3", <<1, 2, 3>>)

\* Variant: with organized groups a14_1 is not derived from the a13_1 radio.
pagina_A1_voluntariado_underived(ss) ==
    IF ss.answers["a12_1"] = 1
    THEN LET a12_2_2_val == get(ss.answers, "a12_2_2")
         IN  store_ans(clear_branch(store_ans(store_ans(ss, "a13_1", a12_2_2_val),
                                              "a14_1", a12_2_2_val),
                                    {"a13_1"}),
                       "a13_1", a12_2_2_val)
    ELSE radio_answer(ss, "a13_1", <<1, 2, 3, 4>>)

\* pagina_A1, "Voluntariado / cuidado del lugar"
pagina_A1_voluntariado(ss) ==
    IF ss.answers["a12_1"] = 1
    THEN LET a12_2_2_val == get(ss.answers, "a12_2_2")
         IN  store_ans(clear_branch(store_ans(store_ans(ss, "a13_1", a12_2_2_val),
                                              "a14_1", a12_2_2_val),
                                    {"a13_1"}),
                       "a13_1", a12_2_2_val)
    ELSE LET after == radio_answer(ss, "a13_1", <<1, 2, 3, 4>>)
             a13_1_val == after.answers["a13_1"]
         IN  store_ans(after, "a14_1", a13_1_val)

\* pagina_A1, "Uso nocturno": after the radio a15_1
pagina_A1_uso_nocturno_branch(ss) ==
    IF ss.answers["a15_1"] = 1
    THEN store_ans(clear_branch(ss, {"a15_2"}), "a15_2", 1)
    ELSE IF ss.answers["a15_1"] \in {2, 3}
    THEN radio_answer(ss, "a15_2", <<1, 2, 3, 4>>)
    ELSE store_ans(clear_branch(ss, {"a15_2"}), "a15_2", None)

pagina_A1_uso_nocturno(ss) ==
    pagina_A1_uso_nocturno_branch(radio_answer(ss, "a15_1", <<1, 2, 3>>))

pagina_A1(ss) ==
    pagina_A1_uso_nocturno(pagina_A1_voluntariado(pagina_A1_redes(pagina_A1_diversidad(ss))))

\* pagina_A2, "Modos de transporte": after the radio a21_use_percent
pagina_A2_modos_branch(ss) ==
    IF ss.answers["a21_use_percent"] = 1
    THEN render_widgets(clear_branch(ss, {"a21_2"}),
                        <<[kind |-> "slider", key |-> "a21_1_walk", options |-> <<0>>],
                          [kind |-> "slider", key |-> "a21_1_bike", options |-> <<0>>],
                          [kind |-> "slider", key |-> "a21_1_pt", options |-> <<0>>],
                          [kind |-> "slider", key |-> "a21_1_car", options |-> <<0>>]>>)
    ELSE radio_answer(clear_branch(ss, ModalShareKeys), "a21_2", <<1, 2, 3, 4>>)

\* the widgets of pagina_A2 from "Conectividad" to a26_2, in the order of the page
pagina_A2_widgets ==
    <<[kind |-> "radio", key |-> "a22_1", options |-> <<1, 2, 3>>],
      [kind |-> "radio", key |-> "a22_2", options |-> <<1, 2, 3>>],
      [kind |-> "radio", key |-> "a22_3", options |-> <<1, 2>>],
      [kind |-> "radio", key |-> "a23_1", options |-> <<1, 2, 3, 4>>],
      [kind |-> "slider", key |-> "a24_1", options |-> <<0>>],
      [kind |-> "checkbox", key |-> "a24_1_na", options |-> <<0>>],
      [kind |-> "number", key |-> "a24_2", options |-> <<0>>],
      [kind |-> "checkbox", key |-> "a24_2_na", options |-> <<0>>],
      [kind |-> "radio", key |-> "a25_1", options |-> <<1, 2, 3>>],
      [kind |-> "number", key |-> "a25_2", options |-> <<0>>],
      [kind |-> "checkbox", key |-> "a25_2_na", options |-> <<0>>],
      [kind |-> "radio", key |-> "a25_3", options |-> <<1, 2, 3>>],
      [kind |-> "radio", key |-> "a26_1_p", options |-> <<1, 2, 3>>],
      [kind |-> "radio", key |-> "a26_2", options |-> <<1, 2>>]>>

\* pagina_A2, "Primera infancia y cuidadores": after the radio a26_2
pagina_A2_cuidadores_branch(ss) ==
    IF ss.answers["a26_2"] = 1
    THEN radio_answer(ss, "a26_2_1", <<1, 2, 3>>)
    ELSE store_ans(clear_branch(ss, {"a26_2_1"}), "a26_2_1", None)

pagina_A2_modos(ss) ==
    pagina_A2_modos_branch(radio_answer(ss, "a21_use_percent", <<1, 2>>))

pagina_A2_conectividad_a_cuidadores(ss) ==
    pagina_A2_cuidadores_branch(render_widgets(ss, pagina_A2_widgets))

pagina_A2(ss) == pagina_A2_conectividad_a_cuidadores(pagina_A2_modos(ss))

\* the keys the two pages store
PageKeys == DOMAIN pagina_A2(pagina_A1([answers |-> EmptyDict, widgets |-> EmptyDict])).answers
               \cup {"a12_2_1", "a21_2"}

\* Variant: the append is made whenever a save is pending.
append_attempted_whenever_pending(pending, saved) == pending

\* pagina_resultados, the condition of the call of append_to_google_sheet
append_attempted(pending, saved) == pending /\ ~saved

\* what append_to_google_sheet can do in a run that calls it: append the row and return
\* (True, "OK"), return (False, msg) when the sheet is not configured, or raise (gspread)
append_outcomes(pending, saved) ==
    IF append_attempted(pending, saved) THEN {"ok", "failed", "sink raised"} ELSE {"no save"}

\* Variant: a failed save stays pending.
save_logic_failure_stays_pending(pending, saved, outcome) ==
    IF outcome = "ok" THEN [save_pending |-> FALSE, saved_to_sheet |-> TRUE]
    ELSE IF outcome \in {"failed", "sink raised"}
    THEN [save_pending |-> pending, saved_to_sheet |-> saved]
    ELSE [save_pending |-> IF pending /\ saved THEN FALSE ELSE pending, saved_to_sheet |-> saved]

\* pagina_resultados, the save logic: the two flags of the session after it. An
\* exception of the append leaves the function before any assignment.
save_logic(pending, saved, outcome) ==
    IF outcome = "ok" THEN [save_pending |-> FALSE, saved_to_sheet |-> TRUE]
    ELSE IF outcome = "failed" THEN [save_pending |-> FALSE, saved_to_sheet |-> saved]
    ELSE IF outcome = "sink raised" THEN [save_pending |-> pending, saved_to_sheet |-> saved]
    ELSE [save_pending |-> IF pending /\ saved THEN FALSE ELSE pending, saved_to_sheet |-> saved]

\* One run of the script that got past the force_reload check, from the widget state
\* ws: the pages Encuentro and Conexiones run on the session, section after section, each on
\* the session the one before left (pagina_A2(pagina_A1(...)), taken in steps); the
\* other pages, whose widgets the user leaves alone, store what they store on the first
\* run; the results page computes the report and runs the save logic.
run_pages(ws) ==
    /\ \E s1 \in {pagina_A1_diversidad([answers |-> answers, widgets |-> ws])} :
       \E s2 \in {pagina_A1_redes(s1)} :
       \E s3 \in {pagina_A1_voluntariado(s2)} :
       \E s4 \in {pagina_A1_uso_nocturno(s3)} :
       \E s5 \in {pagina_A2_modos(s4)} :
       \E ss \in {pagina_A2_conectividad_a_cuidadores(s5)} :
          /\ answers' = ss.answers @@ [k \in (DOMAIN FirstRunAnswers) \ PageKeys |-> FirstRunAnswers[k]]
          /\ widgets' = ss.widgets
    /\ report' = pagina_resultados(answers')
    /\ \E outcome \in append_outcomes(save_pending, saved_to_sheet) :
          LET after == save_logic(save_pending, saved_to_sheet, outcome)
          IN  /\ save_pending' = after.save_pending
              /\ saved_to_sheet' = after.saved_to_sheet
              /\ sheet' = IF outcome = "ok"
                          THEN Append(sheet, append_to_google_sheet(export_data(answers', report')))
                          ELSE sheet
              /\ appended' = IF outcome = "ok" THEN appended + 1 ELSE appended
              /\ call' = [fn |-> "pagina_resultados",
                          args |-> <<save_pending, saved_to_sheet>>, ret |-> outcome]
    /\ UNCHANGED <<steps, config_edits, env, force_reload>>

\* the script runs again with the widgets as they are
script_run ==
    /\ ~force_reload
    /\ run_pages(widgets)

\* the widgets the user works, with the values each can be given; the other widgets of
\* the two pages keep the value they first show
WorkedWidgets ==
    ("a12_1" :> 1..3) @@ ("a12_2_1" :> 1..3) @@ ("a12_2_2" :> 1..4) @@ ("a13_1" :> 1..4)
    @@ ("a21_use_percent" :> 1..2) @@ ("a21_2" :> 1..4)
    @@ ("a21_1_walk" :> PctValues) @@ ("a21_1_car" :> PctValues)

\* The user gives a widget on the screen another value, and the script runs again.
user_selects(key, value) ==
    /\ ~force_reload
    /\ key \in DOMAIN widgets
    /\ widgets[key] # value
    /\ run_pages((key :> value) @@ widgets)

NextPages ==
    \/ script_run
    \/ \E key \in DOMAIN WorkedWidgets : \E value \in WorkedWidgets[key] : user_selects(key, value)

SpecPages == Init /\ [][NextPages]_vars

\* ---------------------------------------------------------------- claims on the pages
\* the pages have run at least once in the session
PagesRan == answers # EmptyDict

\* C21: the gated answer groups exclude each other in the answer record after any
\* sequence of user selections and script runs: once pagina_A1 has run, a12_1 = 1 means
\* a12_2_1 is not stored and a12_1 # 1 means a12_2_2 is not stored; once pagina_A2 has
\* run, a21_use_percent = 1 means a21_2 is not stored and a21_use_percent # 1 means none
\* of the four modal-share keys is stored.
C21_GatedGroupsExclusive ==
    PagesRan
    => /\ get(answers, "a12_1") = 1 => "a12_2_1" \notin DOMAIN answers
       /\ get(answers, "a12_1") # 1 => "a12_2_2" \notin DOMAIN answers
       /\ get(answers, "a21_use_percent") = 1 => "a21_2" \notin DOMAIN answers
       /\ get(answers, "a21_use_percent") # 1 => ModalShareKeys \cap DOMAIN answers = {}

\* the user went over to "organized groups exist" and to "no percentages" after the
\* other branches had stored their answers, and answered the questions of the new ones
C21_Witness ==
    /\ PagesRan
    /\ get(answers, "a12_1") = 2
    /\ get(answers, "a12_2_1") = 3
    /\ get(answers, "a13_1") = 3
    /\ "a12_2_2" \notin DOMAIN answers
    /\ get(answers, "a21_use_percent") = 2
    /\ get(answers, "a21_2") = 4
    /\ ModalShareKeys \cap DOMAIN answers = {}

\* C28: after pagina_A1 has run, the stored a13_1 and a14_1 are equal (both equal
\* a12_2_2 when a12_1 = 1, both the value of the a13_1 radio otherwise); so A1.4 equals
\* A1.3 whenever a12_1 # 1, and 0.85 times the four-point score of a12_2_2 when
\* a12_1 = 1.
C28_StateProxiesEqual ==
    PagesRan
    => /\ get(answers, "a13_1") = get(answers, "a14_1")
       /\ IF get(answers, "a12_1") = 1
          THEN /\ get(answers, "a13_1") = get(answers, "a12_2_2")
               /\ report.indicators["A1.4"]
                     = (85 * Mapped("score_1_4_100_75_50_25", get(answers, "a12_2_2"))) \div 100
          ELSE /\ get(answers, "a13_1") = get(widgets, "a13_1")
               /\ report.indicators["A1.4"] = report.indicators["A1.3"]
       /\ report.indicators["A1.4"] # None

\* no organized groups and the physical state "in good condition": a13_1 and a14_1
\* both hold 2, no a13_1 radio is on the screen, and A1.4 = 0.85 * 75 = 63.75
C28_Witness ==
    /\ PagesRan
    /\ get(answers, "a12_1") = 1
    /\ get(answers, "a12_2_2") = 2
    /\ get(answers, "a13_1") = 2
    /\ get(answers, "a14_1") = 2
    /\ "a13_1" \notin DOMAIN widgets
    /\ report.indicators["A1.3"] = 52500
    /\ report.indicators["A1.4"] = 63750

\* ---------------------------------------------------------------- SpecSave: saving and starting over
\* the rows the sheet is followed up to
MaxRows == 2

\* Variant: the reset leaves saved_to_sheet as it is.
session_state_after_reset_keeping_saved(ss) ==
    [answers |-> EmptyDict, widgets |-> EmptyDict, save_pending |-> FALSE,
     saved_to_sheet |-> ss.saved_to_sheet, force_reload |-> TRUE]

\* reset_evaluacion: every key of the session but the four base keys is popped, and
\* the base keys are set
session_state_after_reset(ss) ==
    [answers |-> EmptyDict, widgets |-> EmptyDict, save_pending |-> FALSE,
     saved_to_sheet |-> FALSE, force_reload |-> TRUE]

\* on_click of the button "Evaluar otro lugar", which is on the screen when the run
\* before got past pagina_resultados; st.rerun() inside a callback does nothing
reset_evaluacion ==
    /\ answers # EmptyDict
    /\ ~force_reload
    /\ call.fn = "pagina_resultados" /\ call.ret # "sink raised"
    /\ Len(sheet) < MaxRows
    /\ LET after == session_state_after_reset(
                        [answers |-> answers, widgets |-> widgets, save_pending |-> save_pending,
                         saved_to_sheet |-> saved_to_sheet, force_reload |-> force_reload])
       IN  /\ answers' = after.answers
           /\ widgets' = after.widgets
           /\ save_pending' = after.save_pending
           /\ saved_to_sheet' = after.saved_to_sheet
           /\ force_reload' = after.force_reload
    /\ appended' = 0
    /\ UNCHANGED <<report, steps, config_edits, call, sheet, env>>

\* The script run that finds force_reload set: it clears the flag, asks the browser to
\* load the page again and stops; no page and no results tab runs.
reload_run ==
    /\ force_reload
    /\ force_reload' = FALSE
    /\ UNCHANGED <<answers, report, steps, config_edits, call, save_pending, saved_to_sheet,
                   sheet, env, widgets, appended>>

\* the widgets the user works between the saves, with the values each is given
SaveWidgets == ("a12_1" :> 1..2) @@ ("a21_use_percent" :> 1..2)

NextSave ==
    \/ script_run
    \/ \E key \in DOMAIN SaveWidgets : \E value \in SaveWidgets[key] : user_selects(key, value)
    \/ trigger_save_to_sheet
    \/ reset_evaluacion
    \/ reload_run

SpecSave == Init /\ [][NextSave]_vars

\* ---------------------------------------------------------------- claims on saving and starting over
\* a step in which the script ran past the force_reload check: the pages stored answers,
\* and no click set save_pending
RunStep == ~force_reload /\ answers' # EmptyDict /\ ~(~save_pending /\ save_pending')

\* a step of reset_evaluacion
ResetStep == answers # EmptyDict /\ answers' = EmptyDict

\* C25: between two resets of the evaluation at most one row is appended to the sheet,
\* however often the save button is clicked, the script reruns or the answers change; a
\* run that follows a save click after a successful save appends nothing and only
\* clears save_pending.
C25_OneRowBetweenResets ==
    /\ [](appended <= 1 /\ (appended = 1 => saved_to_sheet) /\ appended <= Len(sheet))
    /\ [][/\ Len(sheet') > Len(sheet)
              => Len(sheet') = Len(sheet) + 1 /\ appended = 0 /\ appended' = 1
          /\ (RunStep /\ save_pending /\ saved_to_sheet)
              => sheet' = sheet /\ ~save_pending' /\ saved_to_sheet' /\ appended' = appended
          /\ (saved_to_sheet /\ ~saved_to_sheet') => ResetStep]_vars

\* the run after a save click that followed a successful save and a change of the answers:
\* nothing appended, save_pending cleared, and the one row is not the row of the answers
C25_Witness ==
    /\ call.fn = "pagina_resultados"
    /\ call.args = <<TRUE, TRUE>>
    /\ call.ret = "no save"
    /\ ~save_pending
    /\ saved_to_sheet
    /\ appended = 1
    /\ Len(sheet) = 1
    /\ sheet[1] # append_to_google_sheet(export_data(answers, report))

\* C26: when append_to_google_sheet reports failure (ok = False), saved_to_sheet stays
\* False and save_pending is set to False, so a later run does not try again by itself
\* (a run without save_pending attempts no append), while the save button can be clicked
\* again and the run after the click attempts the append again; an append is attempted
\* only in a run that found save_pending True.
C26_FailedSaveNotRetried ==
    /\ []((call.fn = "pagina_resultados" /\ call.ret \in {"ok", "failed", "sink raised"})
           => call.args[1])
    /\ []((call.fn = "pagina_resultados" /\ call.ret = "failed" /\ ~save_pending /\ ~force_reload
            /\ answers # EmptyDict)
           => ENABLED trigger_save_to_sheet)
    /\ [][RunStep
          => /\ call'.ret = "failed"
                 => ~saved_to_sheet /\ ~saved_to_sheet' /\ ~save_pending' /\ sheet' = sheet
             /\ ~save_pending => call'.ret = "no save" /\ sheet' = sheet
             /\ (save_pending /\ ~saved_to_sheet)
                 => call'.ret \in {"ok", "failed", "sink raised"}]_vars

\* the append failed in the run after a save click: nothing is saved, nothing is pending
C26_Witness ==
    /\ call.fn = "pagina_resultados"
    /\ call.args = <<TRUE, FALSE>>
    /\ call.ret = "failed"
    /\ ~save_pending
    /\ ~saved_to_sheet
    /\ appended = 0
    /\ sheet = <<>>

\* C27: after reset_evaluacion the answers are empty, save_pending and saved_to_sheet
\* are False and force_reload is True; the next script run sets force_reload back to
\* False and stops before any page, so that run writes no answer and appends no row;
\* the evaluation that follows can be saved again.
C27_ResetStartsOver ==
    /\ [](force_reload => /\ answers = EmptyDict
                          /\ widgets = EmptyDict
                          /\ ~save_pending
                          /\ ~saved_to_sheet
                          /\ appended = 0)
    /\ [][/\ ResetStep => force_reload' /\ ~save_pending' /\ ~saved_to_sheet' /\ sheet' = sheet
          /\ force_reload => /\ ~force_reload'
                             /\ answers' = answers
                             /\ widgets' = widgets
                             /\ sheet' = sheet
                             /\ save_pending' = save_pending
                             /\ saved_to_sheet' = saved_to_sheet]_vars
    /\ []((~force_reload /\ ~save_pending /\ answers # EmptyDict) => ENABLED trigger_save_to_sheet)

\* the evaluation after a reset was saved: the sheet holds the row of the evaluation
\* before the reset and the row of this one
C27_Witness ==
    /\ Len(sheet) = 2
    /\ appended = 1
    /\ saved_to_sheet
    /\ ~force_reload
    /\ call.fn = "pagina_resultados"
    /\ call.ret = "ok"
    /\ sheet[2] = append_to_google_sheet(export_data(answers, report))

====
